---- MODULE Spec2Model ----
(***************************************************************************)
(* CaptureKit: transition graph and timeline-sync engine.                  *)
(*                                                                         *)
(* The model covers the TransitionManager (the in-memory graph), the       *)
(* external editor store with project.tracks and project.transitions, and  *)
(* the three components that write transitions to the store: the panel     *)
(* (TransitionsUI + initTransitionsIntegration), the inline picker         *)
(* (transitions-integration v2) and the TransitionsStoreMonitor.           *)
(*                                                                         *)
(* Durations are in milliseconds (1.0 s = 1000).  Transition instances are *)
(* JavaScript objects shared by reference between the manager maps and     *)
(* project.transitions, so they live in a heap indexed by instance number; *)
(* 0 stands for undefined/null.                                            *)
(***************************************************************************)
EXTENDS Integers, Sequences, FiniteSets, TLC

VARIABLES
  win,                 \* what the window exposes for store discovery
  tracks,              \* project.tracks: sequence of tracks, each a sequence of clip ids
  heap,                \* transition objects: instance number -> record, or NoInst
  hasTransitions,      \* project.transitions is an array (not undefined)
  transitions,         \* project.transitions: sequence of instance numbers
  mgrPanel,            \* panel TransitionManager.transitions: clip id -> instance number
  mgrInline,           \* inline picker TransitionManager.transitions
  currentClipId,       \* TransitionsUI.currentClipId
  pendingTransitions,  \* TransitionsStoreMonitor.pendingTransitions
  lastTrackSnapshot,   \* TransitionsStoreMonitor.lastTrackSnapshot
  resyncScheduled,     \* the 200 ms re-inject/sync timeout of the poll tick is pending
  retryTimers,         \* pending 500 ms retries of saveTransitionToStore, in due order
  keyOrder,            \* insertion order of the keys of each manager's transitions Map
  preview,             \* TransitionsUI: its preview animation and its container
  intervalArmed,       \* the setInterval of startMonitoring has not been cleared
  voice,               \* voice-overs: clips put on the audio track, VoiceOverStoreMonitor.pendingVoiceOvers
  dom,                 \* timeline DOM: clip elements of each track row, '+' buttons, debounce timer
  tracksDirty,         \* history: project.tracks changed since the last tick that located the store
  last                 \* history: the last handler that ran, its arguments and its outcome

vars == <<win, tracks, heap, hasTransitions, transitions, mgrPanel, mgrInline,
          currentClipId, pendingTransitions, lastTrackSnapshot, resyncScheduled,
          retryTimers, intervalArmed, preview, keyOrder, tracksDirty, voice, dom, last>>

----------------------------------------------------------------------------
(* Bounds of the model *)

MaxInst == 3
MaxQueue == 2
MaxRetry == 1

----------------------------------------------------------------------------
(* Clips and tracks of the host project *)

Clips == {"A", "B", "C"}
NoClip == "none"

\* clip.duration of each clip of the host project, in ms
ClipDuration == [A |-> 4000, B |-> 1000, C |-> 6000]

\* The track compositions the host moves between (clip ids per track, in order)
TrackLayouts ==
  { << <<"A", "B", "C">> >>,
    << <<"A", "C">>, <<"B">> >> }

----------------------------------------------------------------------------
(* Transition catalog *)

TRANSITION_TYPES ==
  [ CROSSFADE |-> [id |-> "crossfade", category |-> "fade", defaultDuration |-> 1000],
    FADE_TO_BLACK |-> [id |-> "fadeToBlack", category |-> "fade", defaultDuration |-> 1000],
    FADE_TO_WHITE |-> [id |-> "fadeToWhite", category |-> "fade", defaultDuration |-> 1000],
    WIPE_LEFT |-> [id |-> "wipeLeft", category |-> "wipe", defaultDuration |-> 800],
    WIPE_RIGHT |-> [id |-> "wipeRight", category |-> "wipe", defaultDuration |-> 800],
    WIPE_UP |-> [id |-> "wipeUp", category |-> "wipe", defaultDuration |-> 800],
    WIPE_DOWN |-> [id |-> "wipeDown", category |-> "wipe", defaultDuration |-> 800],
    SLIDE_LEFT |-> [id |-> "slideLeft", category |-> "slide", defaultDuration |-> 700],
    SLIDE_RIGHT |-> [id |-> "slideRight", category |-> "slide", defaultDuration |-> 700],
    SLIDE_UP |-> [id |-> "slideUp", category |-> "slide", defaultDuration |-> 700],
    SLIDE_DOWN |-> [id |-> "slideDown", category |-> "slide", defaultDuration |-> 700],
    ZOOM_IN |-> [id |-> "zoomIn", category |-> "zoom", defaultDuration |-> 800],
    ZOOM_OUT |-> [id |-> "zoomOut", category |-> "zoom", defaultDuration |-> 800],
    PIXELATE |-> [id |-> "pixelate", category |-> "effect", defaultDuration |-> 600],
    BLUR |-> [id |-> "blur", category |-> "effect", defaultDuration |-> 800],
    MIRROR |-> [id |-> "mirror", category |-> "effect", defaultDuration |-> 700],
    CIRCLE_OPEN |-> [id |-> "circleOpen", category |-> "shape", defaultDuration |-> 1000],
    CIRCLE_CLOSE |-> [id |-> "circleClose", category |-> "shape", defaultDuration |-> 1000],
    DIAMOND |-> [id |-> "diamond", category |-> "shape", defaultDuration |-> 800] ]

CatalogIds == {TRANSITION_TYPES[k].id : k \in DOMAIN TRANSITION_TYPES}

\* Characters of the strings used as type ids and catalog keys
Chars ==
  [ CROSSFADE |-> <<"C", "R", "O", "S", "S", "F", "A", "D", "E">>,
    FADE_TO_BLACK |-> <<"F", "A", "D", "E", "_", "T", "O", "_", "B", "L", "A", "C", "K">>,
    FADE_TO_WHITE |-> <<"F", "A", "D", "E", "_", "T", "O", "_", "W", "H", "I", "T", "E">>,
    WIPE_LEFT |-> <<"W", "I", "P", "E", "_", "L", "E", "F", "T">>,
    WIPE_RIGHT |-> <<"W", "I", "P", "E", "_", "R", "I", "G", "H", "T">>,
    WIPE_UP |-> <<"W", "I", "P", "E", "_", "U", "P">>,
    WIPE_DOWN |-> <<"W", "I", "P", "E", "_", "D", "O", "W", "N">>,
    SLIDE_LEFT |-> <<"S", "L", "I", "D", "E", "_", "L", "E", "F", "T">>,
    SLIDE_RIGHT |-> <<"S", "L", "I", "D", "E", "_", "R", "I", "G", "H", "T">>,
    SLIDE_UP |-> <<"S", "L", "I", "D", "E", "_", "U", "P">>,
    SLIDE_DOWN |-> <<"S", "L", "I", "D", "E", "_", "D", "O", "W", "N">>,
    ZOOM_IN |-> <<"Z", "O", "O", "M", "_", "I", "N">>,
    ZOOM_OUT |-> <<"Z", "O", "O", "M", "_", "O", "U", "T">>,
    PIXELATE |-> <<"P", "I", "X", "E", "L", "A", "T", "E">>,
    BLUR |-> <<"B", "L", "U", "R">>,
    MIRROR |-> <<"M", "I", "R", "R", "O", "R">>,
    CIRCLE_OPEN |-> <<"C", "I", "R", "C", "L", "E", "_", "O", "P", "E", "N">>,
    CIRCLE_CLOSE |-> <<"C", "I", "R", "C", "L", "E", "_", "C", "L", "O", "S", "E">>,
    DIAMOND |-> <<"D", "I", "A", "M", "O", "N", "D">>,
    crossfade |-> <<"c", "r", "o", "s", "s", "f", "a", "d", "e">>,
    fadeToBlack |-> <<"f", "a", "d", "e", "T", "o", "B", "l", "a", "c", "k">>,
    fadeToWhite |-> <<"f", "a", "d", "e", "T", "o", "W", "h", "i", "t", "e">>,
    wipeLeft |-> <<"w", "i", "p", "e", "L", "e", "f", "t">>,
    wipeRight |-> <<"w", "i", "p", "e", "R", "i", "g", "h", "t">>,
    wipeUp |-> <<"w", "i", "p", "e", "U", "p">>,
    wipeDown |-> <<"w", "i", "p", "e", "D", "o", "w", "n">>,
    slideLeft |-> <<"s", "l", "i", "d", "e", "L", "e", "f", "t">>,
    slideRight |-> <<"s", "l", "i", "d", "e", "R", "i", "g", "h", "t">>,
    slideUp |-> <<"s", "l", "i", "d", "e", "U", "p">>,
    slideDown |-> <<"s", "l", "i", "d", "e", "D", "o", "w", "n">>,
    zoomIn |-> <<"z", "o", "o", "m", "I", "n">>,
    zoomOut |-> <<"z", "o", "o", "m", "O", "u", "t">>,
    pixelate |-> <<"p", "i", "x", "e", "l", "a", "t", "e">>,
    blur |-> <<"b", "l", "u", "r">>,
    mirror |-> <<"m", "i", "r", "r", "o", "r">>,
    circleOpen |-> <<"c", "i", "r", "c", "l", "e", "O", "p", "e", "n">>,
    circleClose |-> <<"c", "i", "r", "c", "l", "e", "C", "l", "o", "s", "e">>,
    diamond |-> <<"d", "i", "a", "m", "o", "n", "d">>,
    fade |-> <<"f", "a", "d", "e">>,
    bogus |-> <<"b", "o", "g", "u", "s">> ]

LowerLetters == <<"a","b","c","d","e","f","g","h","i","j","k","l","m",
                  "n","o","p","q","r","s","t","u","v","w","x","y","z">>
UpperLetters == <<"A","B","C","D","E","F","G","H","I","J","K","L","M",
                  "N","O","P","Q","R","S","T","U","V","W","X","Y","Z">>

\* String.prototype.toUpperCase, character by character
toUpperCase(s) ==
  [i \in DOMAIN s |->
     IF \E j \in DOMAIN LowerLetters : LowerLetters[j] = s[i]
     THEN UpperLetters[CHOOSE j \in DOMAIN LowerLetters : LowerLetters[j] = s[i]]
     ELSE s[i]]

\* s.toUpperCase() of every string the model uses, computed once
UpperCased == [s \in DOMAIN Chars |-> toUpperCase(Chars[s])]

\* the catalog keys spelled like each upper-cased string (none or one)
KeysSpelled == [s \in DOMAIN Chars |->
                  {k \in DOMAIN TRANSITION_TYPES : Chars[k] = UpperCased[s]}]

\* TRANSITION_TYPES[transitionType.toUpperCase()]: the matching keys (none or one)
lookupByUpperCase(transitionType) == KeysSpelled[transitionType]

\* Object.values(TRANSITION_TYPES).find(t => t.id === transitionId): the matching keys
findById(transitionId) ==
  {k \in DOMAIN TRANSITION_TYPES : TRANSITION_TYPES[k].id = transitionId}

----------------------------------------------------------------------------
(* Transition objects *)

NoInst == [fromClipId |-> NoClip, toClipId |-> NoClip, type |-> "", duration |-> 0]

InstIds == 1..MaxInst

\* A fresh object: the lowest free instance number
NewId(h) == CHOOSE n \in InstIds : h[n] = NoInst /\ \A k \in 1..(n-1) : h[k] # NoInst

HasRoom(h) == \E n \in InstIds : h[n] = NoInst

Range(s) == {s[i] : i \in DOMAIN s}

\* Objects no longer referenced by the store or by a manager map are collected
Collect(h, tr, mp, mi) ==
  [n \in InstIds |->
     IF n \in Range(tr) \/ (\E c \in Clips : mp[c] = n \/ mi[c] = n) THEN h[n] ELSE NoInst]

\* Instance numbers only name objects (their ids are random UUIDs): after each
\* handler the live objects are renumbered in order of first reference from
\* project.transitions, then the panel's map, then the inline picker's map
ClipOrder == <<"A", "B", "C">>

Refs(tr, mp, mi) ==
  tr \o [i \in 1..3 |-> mp[ClipOrder[i]]] \o [i \in 1..3 |-> mi[ClipOrder[i]]]

Renumber(refs, n) ==
  IF n = 0 THEN 0
  ELSE LET first == CHOOSE i \in DOMAIN refs : refs[i] = n /\ \A j \in 1..(i-1) : refs[j] # n
       IN Cardinality({refs[j] : j \in 1..first} \ {0})

Commit(h, tr, mp, mi, lst) ==
  LET refs == Refs(tr, mp, mi)
      live == Range(refs) \ {0}
  IN /\ transitions' = [i \in DOMAIN tr |-> Renumber(refs, tr[i])]
     /\ mgrPanel' = [c \in Clips |-> Renumber(refs, mp[c])]
     /\ mgrInline' = [c \in Clips |-> Renumber(refs, mi[c])]
     /\ heap' = [k \in InstIds |->
                   IF \E n \in live : Renumber(refs, n) = k
                   THEN h[CHOOSE n \in live : Renumber(refs, n) = k]
                   ELSE NoInst]
     /\ last' = IF "inst" \in DOMAIN lst THEN [lst EXCEPT !.inst = Renumber(refs, @)] ELSE lst

----------------------------------------------------------------------------
(* TransitionManager *)

\* addTransition(fromClipId, toClipId, transitionType, {duration}) on map m
addTransition(m, h, fromClipId, toClipId, transitionType, duration) ==
  IF lookupByUpperCase(transitionType) = {}
  THEN [threw |-> TRUE, map |-> m, heap |-> h, inst |-> 0]
  ELSE LET transition == TRANSITION_TYPES[CHOOSE k \in lookupByUpperCase(transitionType) : TRUE]
           n == NewId(h)
           transitionData ==
             [fromClipId |-> fromClipId, toClipId |-> toClipId, type |-> transitionType,
              duration |-> IF duration # 0 THEN duration ELSE transition.defaultDuration]
       IN [threw |-> FALSE,
           map |-> [[m EXCEPT ![fromClipId] = n] EXCEPT ![toClipId] = n],
           heap |-> [h EXCEPT ![n] = transitionData],
           inst |-> n]

\* Map insertion order after a handler: deleted keys leave, keys set for the first
\* time are appended in the order they were set
RECURSIVE appendNew(_, _)
appendNew(order, setKeys) ==
  IF setKeys = <<>> THEN order
  ELSE appendNew(IF Head(setKeys) \in Range(order) THEN order
                 ELSE Append(order, Head(setKeys)),
                 Tail(setKeys))

reorder(order, mNew, setKeys) ==
  appendNew(SelectSeq(order, LAMBDA k : mNew[k] # 0), setKeys)

\* removeTransition(clipId) on map m
removeTransition(m, h, clipId) ==
  IF m[clipId] # 0
  THEN [ret |-> TRUE,
        map |-> [[m EXCEPT ![h[m[clipId]].fromClipId] = 0] EXCEPT ![h[m[clipId]].toClipId] = 0]]
  ELSE [ret |-> FALSE, map |-> m]

\* getTransition(clipId)
getTransition(m, clipId) == m[clipId]

\* validateTransitionDuration(fromClip, toClip, duration)
Min(a, b) == IF a <= b THEN a ELSE b

validateTransitionDuration(fromDuration, toDuration, duration) ==
  Min(duration, Min(fromDuration, toDuration) \div 2)

----------------------------------------------------------------------------
(* Store discovery.  One editor store exists in the host; the window can   *)
(* expose it as window.editorStore, as an entry of window.$pinia._s, as    *)
(* the result of window.useEditorStore(), or as window.projectStore.  Each *)
(* component has its own lookup.                                           *)

\* names under which stores are registered in window.$pinia._s
StoreNameChars ==
  [ editor |-> <<"e", "d", "i", "t", "o", "r">>,
    Project |-> <<"P", "r", "o", "j", "e", "c", "t">>,
    cart |-> <<"c", "a", "r", "t">> ]

\* String.prototype.includes
includes(s, sub) ==
  \E i \in 1..(Len(s) - Len(sub) + 1) : SubSeq(s, i, i + Len(sub) - 1) = sub

\* name.includes('editor') || name.includes('project')
includesEditorOrProject(name) ==
  \/ includes(StoreNameChars[name], <<"e", "d", "i", "t", "o", "r">>)
  \/ includes(StoreNameChars[name], <<"p", "r", "o", "j", "e", "c", "t">>)

\* /editor|project/i.test(name)
testEditorOrProject(name) ==
  \/ includes(toUpperCase(StoreNameChars[name]), <<"E", "D", "I", "T", "O", "R">>)
  \/ includes(toUpperCase(StoreNameChars[name]), <<"P", "R", "O", "J", "E", "C", "T">>)

\* what a lookup returns: the store and the route it was found by, or a falsy value
Found(via, entry) == [via |-> via, entry |-> entry]
Null == Found("null", 0)
Undefined == Found("undefined", 0)

\* a lookup whose every result counts as a store
everythingLocated(r) == TRUE

Located(r) == r \notin {Null, Undefined}

\* the window with nothing exposed, and with window.editorStore set
NoWindow ==
  [editorStore |-> FALSE, pinia |-> <<>>, useEditorStore |-> "absent",
   projectStore |-> "absent", project |-> TRUE]
EditorStoreWindow == [NoWindow EXCEPT !.editorStore = TRUE]

WinConfigs == {NoWindow, EditorStoreWindow}

\* for (const [name, store] of Object.entries(stores)) if (matches(name)) return store
firstEntry(stores, matching) ==
  IF \E i \in DOMAIN stores : stores[i] \in matching
  THEN CHOOSE i \in DOMAIN stores :
         stores[i] \in matching /\ \A j \in 1..(i-1) : stores[j] \notin matching
  ELSE 0

\* try { return window.useEditorStore(); } catch (_) {}
\* TRUE when the call returned (a store or undefined), FALSE when absent or it threw
accessorReturns(w) == w.useEditorStore \in {"store", "undefined"}
accessorResult(w) ==
  IF w.useEditorStore = "store" THEN Found("useEditorStore", 0) ELSE Undefined

\* inline picker: getStore()
getStore(w) ==
  IF w.editorStore THEN Found("editorStore", 0)
  ELSE IF firstEntry(w.pinia, {n \in DOMAIN StoreNameChars : testEditorOrProject(n)}) # 0
       THEN Found("pinia",
                  firstEntry(w.pinia, {n \in DOMAIN StoreNameChars : testEditorOrProject(n)}))
  ELSE IF accessorReturns(w) THEN accessorResult(w)
  ELSE Null

\* panel: getEditorStoreFromWindow()
getEditorStoreFromWindow(w) ==
  IF w.editorStore THEN Found("editorStore", 0)
  ELSE IF firstEntry(w.pinia, {n \in DOMAIN StoreNameChars : includesEditorOrProject(n)}) # 0
       THEN Found("pinia",
                  firstEntry(w.pinia, {n \in DOMAIN StoreNameChars : includesEditorOrProject(n)}))
  ELSE IF accessorReturns(w) THEN accessorResult(w)
  ELSE IF w.projectStore = "store" THEN Found("projectStore", 0)
  ELSE Null

\* store monitor: getEditorStore()
getEditorStore(w) ==
  IF w.editorStore THEN Found("editorStore", 0)
  ELSE IF firstEntry(w.pinia, {n \in DOMAIN StoreNameChars : testEditorOrProject(n)}) # 0
       THEN Found("pinia",
                  firstEntry(w.pinia, {n \in DOMAIN StoreNameChars : testEditorOrProject(n)}))
  ELSE IF accessorReturns(w) THEN accessorResult(w)
  ELSE Null

----------------------------------------------------------------------------
(* Reading the store *)

\* array.filter(keep) on project.transitions
RECURSIVE Filter(_, _)
Filter(tr, keepSet) ==
  IF tr = <<>> THEN <<>>
  ELSE IF Head(tr) \in keepSet THEN <<Head(tr)>> \o Filter(Tail(tr), keepSet)
       ELSE Filter(Tail(tr), keepSet)

\* getStoredTransitions(): getStore()?.project?.transitions || []
getStoredTransitions(w, has, tr) ==
  IF Located(getStore(w)) /\ w.project /\ has THEN tr ELSE <<>>

\* store.project?.tracks || []
projectTracks(w, tks) == IF w.project THEN tks ELSE <<>>

\* getTransitionBetween(aId, bId): first stored instance with that ordered pair, or 0
getTransitionBetween(w, has, tr, h, aId, bId) ==
  LET stored == getStoredTransitions(w, has, tr)
      hits == {i \in DOMAIN stored :
                 h[stored[i]].fromClipId = aId /\ h[stored[i]].toClipId = bId}
  IN IF hits = {} THEN 0
     ELSE stored[CHOOSE i \in hits : \A j \in hits : i <= j]

\* index of clipId in a track's clips, 0 when absent (findIndex)
IndexIn(clips, clipId) ==
  IF \E i \in DOMAIN clips : clips[i] = clipId
  THEN CHOOSE i \in DOMAIN clips : clips[i] = clipId /\ \A j \in 1..(i-1) : clips[j] # clipId
  ELSE 0

findClipWrappingAround(tks, located, clipId) ==
  LET holding == {t \in DOMAIN tks : IndexIn(tks[t], clipId) # 0}
  IN IF ~located \/ holding = {}
     THEN [found |-> FALSE, clip |-> NoClip, nextClip |-> NoClip]
     ELSE LET t == CHOOSE t \in holding : \A u \in holding : t <= u
              idx == IndexIn(tks[t], clipId)
          IN [found |-> TRUE, clip |-> clipId,
              nextClip |-> tks[t][(idx % Len(tks[t])) + 1]]

\* findClipInProject(clipId, editorStore) of the store monitor: the first track
\* holding the clip gives the clip and the clip after it in that track
findClipInProject(tks, located, clipId) ==
  LET holding == {t \in DOMAIN tks : IndexIn(tks[t], clipId) # 0}
  IN IF ~located \/ holding = {}
     THEN [found |-> FALSE, clip |-> NoClip, nextClip |-> NoClip]
     ELSE LET t == CHOOSE t \in holding : \A u \in holding : t <= u
              idx == IndexIn(tks[t], clipId)
          IN [found |-> TRUE, clip |-> clipId,
              nextClip |-> IF idx + 1 <= Len(tks[t]) THEN tks[t][idx + 1] ELSE NoClip]

\* findClipInProject(clipId) of the panel: without a store it falls back to
\* findClipInDOM, which never yields a next clip
findClipInProjectPanel(tks, located, clipId) ==
  IF located THEN findClipInProject(tks, TRUE, clipId)
  ELSE [found |-> \E t \in DOMAIN tks : IndexIn(tks[t], clipId) # 0,
        clip |-> clipId, nextClip |-> NoClip]

\* Math.min(options.duration || 1.0, Math.min(clip.duration, nextClip.duration) / 2)
\* (clip durations are even numbers of ms, so the halving is exact)
DefaultRequest == 1000

clampRequestToShorterClip(clipId, nextClipId, requested) ==
  Min(IF requested # 0 THEN requested ELSE DefaultRequest,
      Min(ClipDuration[clipId], ClipDuration[nextClipId]))

clampRequest(clipId, nextClipId, requested) ==
  Min(IF requested # 0 THEN requested ELSE DefaultRequest,
      Min(ClipDuration[clipId], ClipDuration[nextClipId]) \div 2)

----------------------------------------------------------------------------
(* Panel: initTransitionsIntegration handlers *)

\* saveTransitionToProject(clipId, transition) with the store located and holding a
\* project (without a store it returns; without a project reading
\* editorStore.project.transitions throws a TypeError)
saveTransitionToProject(tr, h, clipId, inst) ==
  Append(Filter(tr, {n \in InstIds : h[n].fromClipId # clipId /\ h[n].toClipId # clipId}),
         inst)

removeOthersFromProject(w, has, tr, h, clipId) ==
  IF ~Located(getEditorStoreFromWindow(w)) \/ ~w.project \/ ~has THEN tr
  ELSE Filter(tr, {n \in InstIds : h[n].fromClipId = clipId \/ h[n].toClipId = clipId})

\* removeTransitionFromProject(clipId)
removeTransitionFromProject(w, has, tr, h, clipId) ==
  IF ~Located(getEditorStoreFromWindow(w)) \/ ~w.project \/ ~has THEN tr
  ELSE Filter(tr, {n \in InstIds : h[n].fromClipId # clipId /\ h[n].toClipId # clipId})

\* handleTransitionSelect(clipId, transitionType, {duration})
handleTransitionSelect(w, tks, has, tr, h, m, clipId, transitionType, requested) ==
  LET located == Located(getEditorStoreFromWindow(w)) /\ w.project
      clipData == findClipInProjectPanel(tks, located, clipId)
      same(o, shown) == [outcome |-> o, has |-> has, transitions |-> tr, heap |-> h,
                         map |-> m, inst |-> 0, nextClip |-> clipData.nextClip,
                         hooks |-> {}, notified |-> shown]
  IN IF ~clipData.found THEN same("clipNotFound", "error")
     ELSE IF clipData.nextClip = NoClip THEN same("noNextClip", "warning")
     ELSE LET duration == clampRequest(clipId, clipData.nextClip, requested)
              added == addTransition(m, h, clipId, clipData.nextClip, transitionType, duration)
          IN IF added.threw THEN same("unknownType", "none")
             ELSE [outcome |-> "added", has |-> TRUE,
                   transitions |-> saveTransitionToProject(tr, added.heap, clipId, added.inst),
                   heap |-> added.heap, map |-> added.map, inst |-> added.inst,
                   nextClip |-> clipData.nextClip,
                   hooks |-> {"saveNow", "updateClipTransitionIndicator"},
                   notified |-> "success"]

\* handleTransitionUpdate(clipId, {duration})
handleTransitionUpdate(w, tks, has, tr, h, m, clipId, requested) ==
  LET located == Located(getEditorStoreFromWindow(w))
      transition == IF located THEN getTransition(m, clipId) ELSE 0
      clipData == findClipInProjectPanel(tks, located /\ w.project, clipId)
  IN IF transition = 0
     THEN [outcome |-> "noTransition", has |-> has, transitions |-> tr, heap |-> h, inst |-> 0]
     ELSE IF ~w.project
     THEN [outcome |-> "threw", has |-> has, transitions |-> tr, heap |-> h,
           inst |-> transition]
     ELSE LET h2 == IF clipData.found /\ clipData.nextClip # NoClip
                    THEN [h EXCEPT ![transition].duration =
                            Min(requested,
                                Min(ClipDuration[clipData.clip],
                                    ClipDuration[clipData.nextClip]) \div 2)]
                    ELSE h
          IN [outcome |-> "updated", has |-> TRUE,
              transitions |-> saveTransitionToProject(tr, h2, clipId, transition),
              heap |-> h2, inst |-> transition]

----------------------------------------------------------------------------
(* Inline picker: transitions-integration v2 *)

OffOrderedPair(h, fromId, toId) ==
  {n \in InstIds : ~(h[n].fromClipId = fromId /\ h[n].toClipId = toId)}

\* the instances of tr that are not on the clip pair, in either direction
OffPair(h, fromId, toId) ==
  {n \in InstIds : ~( (h[n].fromClipId = fromId /\ h[n].toClipId = toId)
                   \/ (h[n].fromClipId = toId /\ h[n].toClipId = fromId) )}

\* saveTransitionToStore(fromId, toId, type, duration) with the store located and
\* holding a project
saveTransitionToStore(tr, h, mi, fromId, toId, type, duration) ==
  LET n == NewId(h)
      t == [fromClipId |-> fromId, toClipId |-> toId, type |-> type,
            duration |-> IF duration # 0 THEN duration ELSE DefaultRequest]
  IN [transitions |-> Append(Filter(tr, OffPair(h, fromId, toId)), n),
      heap |-> [h EXCEPT ![n] = t],
      map |-> [[mi EXCEPT ![fromId] = n] EXCEPT ![toId] = n],
      inst |-> n]

\* removeTransitionFromStore(fromId, toId) with the store and its list present
removeTransitionFromStore(tr, h, mi, fromId, toId) ==
  [transitions |-> Filter(tr, OffPair(h, fromId, toId)),
   map |-> [[mi EXCEPT ![fromId] = 0] EXCEPT ![toId] = 0]]

\* the keys a list of instances is set under, in the order of the set() calls
RECURSIVE endpointsInOrder(_, _)
endpointsInOrder(tr, h) ==
  IF tr = <<>> THEN <<>>
  ELSE <<h[Head(tr)].fromClipId, h[Head(tr)].toClipId>> \o endpointsInOrder(Tail(tr), h)

\* syncFromStore(): every stored instance is set under both of its clips, in order
RECURSIVE syncFromStore(_, _, _)
syncFromStore(tr, h, mi) ==
  IF tr = <<>> THEN mi
  ELSE syncFromStore(Tail(tr), h,
         [[mi EXCEPT ![h[Head(tr)].fromClipId] = Head(tr)]
              EXCEPT ![h[Head(tr)].toClipId] = Head(tr)])

----------------------------------------------------------------------------
(* TransitionsStoreMonitor *)

\* an argument or an event field left out: undefined, which is no string (it === no
\* category and no type id, and has no toUpperCase)
Omitted == "undefined"

\* addTransitionToProject(clipId, transitionType, options, editorStore); everything
\* is inside try/catch: a transitionType that is no string makes
\* transitionType.toUpperCase() throw after the instance is pushed and saveNow and
\* pushSnapshot are called, and before the refresh is scheduled
addTransitionToProject(tks, has, tr, h, mp, mi, clipId, transitionType, requested) ==
  LET clipData == findClipInProject(tks, TRUE, clipId)
      same(o, shown) == [outcome |-> o, has |-> has, transitions |-> tr, heap |-> h,
                         inst |-> 0, hooks |-> {}, notified |-> shown]
  IN IF ~clipData.found THEN same("clipNotFound", "consoleError")
     ELSE IF clipData.nextClip = NoClip THEN same("noNextClip", "warning")
     ELSE LET duration == clampRequest(clipId, clipData.nextClip, requested)
              kept == Filter(tr, {n \in InstIds :
                                    ~(h[n].fromClipId = clipId \/ h[n].toClipId = clipId)})
              h1 == Collect(h, kept, mp, mi)
          IN IF ~HasRoom(h1) THEN same("noRoom", "none")
             ELSE LET n == NewId(h1)
                      transition == [fromClipId |-> clipId, toClipId |-> clipData.nextClip,
                                     type |-> transitionType, duration |-> duration]
                  IN IF transitionType = Omitted
                     THEN [outcome |-> "threw", has |-> TRUE,
                           transitions |-> Append(kept, n),
                           heap |-> [h1 EXCEPT ![n] = transition], inst |-> n,
                           hooks |-> {"saveNow", "pushSnapshot"},
                           notified |-> "error"]
                     ELSE [outcome |-> "added", has |-> TRUE,
                           transitions |-> Append(kept, n),
                           heap |-> [h1 EXCEPT ![n] = transition], inst |-> n,
                           hooks |-> {"saveNow", "pushSnapshot", "refreshAllBtns"},
                           notified |-> "success"]

\* a drain with 'if' in place of 'while': only the first operation is taken
flushOnlyFirst(queue, tks, has, tr, h, mp, mi) ==
  IF queue = <<>>
  THEN [has |-> has, transitions |-> tr, heap |-> h, outcomes |-> <<>>, hooks |-> <<>>,
        queue |-> queue]
  ELSE LET one == addTransitionToProject(tks, has, tr, h, mp, mi, Head(queue).clipId,
                                         Head(queue).transitionType,
                                         Head(queue).duration)
       IN  [has |-> one.has, transitions |-> one.transitions, heap |-> one.heap,
            outcomes |-> <<one.outcome>>, hooks |-> <<one.hooks>>,
            queue |-> Tail(queue)]

\* while (pendingTransitions.length > 0) addTransitionToProject(shift()): the
\* outcome and the hooks of each call in turn, and the queue the loop leaves
\* (the result of each call is taken as one value of a singleton set, so that it is
\* computed once)
RECURSIVE flushPending(_, _, _, _, _, _, _)
flushPending(queue, tks, has, tr, h, mp, mi) ==
  IF queue = <<>>
  THEN [has |-> has, transitions |-> tr, heap |-> h, outcomes |-> <<>>, hooks |-> <<>>,
        queue |-> queue]
  ELSE CHOOSE flushed \in
         { [flushPending(Tail(queue), tks, one.has, one.transitions, one.heap, mp, mi)
              EXCEPT !.outcomes = <<one.outcome>> \o @, !.hooks = <<one.hooks>> \o @] :
           one \in {addTransitionToProject(tks, has, tr, h, mp, mi, Head(queue).clipId,
                                           Head(queue).transitionType,
                                           Head(queue).duration)} } : TRUE

\* JSON.stringify of an array of strings / of an array of arrays, as its tokens
RECURSIVE JoinIds(_)
JoinIds(ids) ==
  IF ids = <<>> THEN <<>>
  ELSE IF Len(ids) = 1 THEN <<Head(ids)>>
  ELSE <<Head(ids), ",">> \o JoinIds(Tail(ids))

\* the ids of all tracks joined without the brackets of each track
RECURSIVE joinWithoutBrackets(_)
joinWithoutBrackets(tks) ==
  IF tks = <<>> THEN <<>>
  ELSE IF Len(tks) = 1 THEN JoinIds(Head(tks))
  ELSE JoinIds(Head(tks)) \o <<",">> \o joinWithoutBrackets(Tail(tks))

RECURSIVE JoinTracks(_)
JoinTracks(tks) ==
  IF tks = <<>> THEN <<>>
  ELSE IF Len(tks) = 1 THEN <<"[">> \o JoinIds(Head(tks)) \o <<"]">>
  ELSE <<"[">> \o JoinIds(Head(tks)) \o <<"]", ",">> \o JoinTracks(Tail(tks))

\* JSON.stringify(tracks.map(t => t.clips.map(c => c.id)))
TrackSnapshot(tks) == <<"[">> \o JoinTracks(tks) \o <<"]">>

NullSnapshot == <<>>

snapshotNotNull(snapshot, lastSnapshot) == snapshot # NullSnapshot

\* if (snapshot !== this.lastTrackSnapshot)
snapshotChanged(snapshot, lastSnapshot) == snapshot # lastSnapshot

----------------------------------------------------------------------------
(* Inputs *)

\* cards clicked in the panel grid (catalog ids)
PanelTypes == {"crossfade", "blur", "wipeLeft"}

\* cards clicked in the inline picker (catalog ids)
InlineTypes == {"crossfade", "wipeLeft"}

\* 'transitions:add' events: any type string and any options.duration
MonitorClips == {"A", "B"}
MonitorTypes == {"fade", "wipeLeft"}
MonitorDurations == {3000}

\* values of the duration sliders (0.1 s .. 3.0 s)
SliderValues == {2000}

\* inputs of the specification that interleaves all three components
AllLayouts == { << <<"A", "B", "C">> >>, << <<"B", "A", "C">> >> }
AllPanelTypes == {"crossfade"}
AllInlineTypes == {"wipeLeft"}
AllMonitorTypes == {"fade"}

\* consecutive clips of a track: the pairs that carry a "+" button
AdjacentPairs(tks) ==
  UNION {{<<tks[t][i], tks[t][i + 1]>> : i \in 1..(Len(tks[t]) - 1)} : t \in DOMAIN tks}

\* some instance held by the graph m or listed in project.transitions touches clipId
Touches(h, n, clipId) == n # 0 /\ clipId \in {h[n].fromClipId, h[n].toClipId}

TouchedByAny(m, tr, h, clipId) ==
  \/ \E c \in Clips : Touches(h, m[c], clipId)
  \/ \E i \in DOMAIN tr : Touches(h, tr[i], clipId)

----------------------------------------------------------------------------
(* TransitionsUI preview animation.  requestAnimationFrame hands out ids    *)
(* that are never reused; only their equality matters, so after each       *)
(* handler the ids in use are renamed to the lowest numbers.               *)

MaxScheduled == 2

\* previewAnimation: the id held in this.previewAnimation (0 while unset)
\* scheduled: the ids of the animate callbacks the browser will still run
\* started, cancelled: history of the latest playback (a frame of it was rendered;
\*   hide() or destroy() ran since it began)
\* visible, mounted: container.style.display is not 'none'; container.innerHTML is intact
\* elapsed, progress: time - startTime of the frame rendered last in the playback
\*   begun last, in tenths of a second, and the progress it was rendered at, in tenths
NoPreview ==
  [previewAnimation |-> 0, scheduled |-> {}, started |-> FALSE, cancelled |-> FALSE,
   visible |-> TRUE, mounted |-> TRUE, elapsed |-> 0, progress |-> 0]

MaxOf(S) == IF S = {} THEN 0 ELSE CHOOSE x \in S : \A y \in S : y <= x

\* the id requestAnimationFrame returns next
freshId(pv) == MaxOf(pv.scheduled \cup {pv.previewAnimation}) + 1

\* renaming of the ids in use: scheduled callbacks first, then a held id that is
\* no longer scheduled
rank(pv, id) == Cardinality({x \in pv.scheduled : x <= id})

canonical(pv) ==
  [pv EXCEPT !.scheduled = {rank(pv, x) : x \in pv.scheduled},
             !.previewAnimation =
                IF pv.previewAnimation = 0 THEN 0
                ELSE IF pv.previewAnimation \in pv.scheduled
                THEN rank(pv, pv.previewAnimation)
                ELSE Cardinality(pv.scheduled) + 1]

\* if (this.previewAnimation) cancelAnimationFrame(this.previewAnimation)
cancelAnimationFrame(pv) ==
  IF pv.previewAnimation # 0
  THEN [pv EXCEPT !.scheduled = @ \ {pv.previewAnimation}]
  ELSE pv

\* playPreview(): cancel the frame held, then request the first frame of a new playback
playPreview(pv) ==
  LET c == cancelAnimationFrame(pv)
  IN canonical([c EXCEPT !.previewAnimation = freshId(c),
                         !.scheduled = @ \cup {freshId(c)},
                         !.started = FALSE, !.cancelled = FALSE,
                         !.elapsed = 0, !.progress = 0])

nextFrameNotHeld(pv, id) == [pv EXCEPT !.scheduled = @ \cup {id}]

\* this.previewAnimation = requestAnimationFrame(animate) inside animate
requestNextFrame(pv, id) ==
  [pv EXCEPT !.scheduled = @ \cup {id}, !.previewAnimation = id]

\* animate(time), the callback with this id: render, then request the next frame
\* while progress < 1
animate(pv, id, finished) ==
  LET ran == [pv EXCEPT !.scheduled = @ \ {id}, !.started = TRUE]
  IN canonical(IF finished THEN ran ELSE requestNextFrame(ran, freshId(pv)))

----------------------------------------------------------------------------
(* Voice-overs: addToTimeline of the voice-over integration, and the       *)
(* VoiceOverStoreMonitor that puts the recording on the audio track        *)

\* recordings (mediaItem.id)
MediaItems == {"m1", "m2"}

\* nothing recorded yet: no clip on the audio track, nothing queued, no call made;
\* calls counts the calls of addToTimeline made from outside, dispatched the events
\* dispatched during the last of them
NoVoice ==
  [clips |-> [m \in MediaItems |-> 0], pendingVoiceOvers |-> <<>>,
   calls |-> [m \in MediaItems |-> 0], dispatched |-> 0]

\* VoiceOverStoreMonitor.getEditorStore()
voiceGetEditorStore(w) ==
  IF w.editorStore THEN Found("editorStore", 0)
  ELSE IF firstEntry(w.pinia, {n \in DOMAIN StoreNameChars : includesEditorOrProject(n)}) # 0
       THEN Found("pinia",
                  firstEntry(w.pinia, {n \in DOMAIN StoreNameChars : includesEditorOrProject(n)}))
  ELSE IF accessorReturns(w) THEN accessorResult(w)
  ELSE IF w.projectStore = "store" THEN Found("projectStore", 0)
  ELSE Null

\* addVoiceOverToTimeline(mediaItem, editorStore): one more clip with
\* mediaId = mediaItem.id on the audio track of the project; without a project the
\* track it creates is attached to nothing
addVoiceOverToTimeline(clips, w, mediaItem) ==
  IF w.project THEN [clips EXCEPT ![mediaItem] = @ + 1] ELSE clips

\* handleVoiceOver(mediaItem): add now, or queue until the store is there
handleVoiceOver(v, w, mediaItem) ==
  IF Located(voiceGetEditorStore(w))
  THEN [v EXCEPT !.clips = addVoiceOverToTimeline(@, w, mediaItem)]
  ELSE [v EXCEPT !.pendingVoiceOvers = Append(@, mediaItem)]

\* number of entries of a queue that are the given recording
CountIn(queue, mediaItem) == Cardinality({i \in DOMAIN queue : queue[i] = mediaItem})

\* addToTimeline(mediaItem) with room for `room` nested calls on the stack:
\* window.dispatchEvent(new CustomEvent('voiceover:addToTimeline')) runs both
\* listeners synchronously.  The integration's listener calls addToTimeline(mediaItem)
\* again (with no room left the call throws a RangeError, which dispatchEvent reports
\* and does not propagate); the monitor's listener calls handleVoiceOver(mediaItem).
\* Which listener was registered first changes the order of the calls of
\* handleVoiceOver, not their number
RECURSIVE addToTimeline(_, _, _, _)
addToTimeline(v, w, mediaItem, room) ==
  IF room = 0 THEN v
  ELSE handleVoiceOver(addToTimeline([v EXCEPT !.dispatched = @ + 1], w, mediaItem, room - 1),
                       w, mediaItem)

\* the interval callback of VoiceOverStoreMonitor.startMonitoring()
RECURSIVE drainVoiceOvers(_, _, _)
drainVoiceOvers(queue, clips, w) ==
  IF queue = <<>> THEN clips
  ELSE drainVoiceOvers(Tail(queue), addVoiceOverToTimeline(clips, w, Head(queue)), w)

----------------------------------------------------------------------------
(* Timeline DOM: the clip elements of each track row, left to right, and   *)
(* the '+' buttons the inline picker appends to the rows                   *)

MaxRows == 2

\* an empty timeline without buttons, no inject scheduled
EmptyTimeline ==
  [rows |-> [r \in 1..MaxRows |-> <<>>], buttons |-> {}, debounce |-> FALSE,
   cycles |-> 0, renders |-> 0]

\* parentElement of document.querySelector(`[data-clip-id="${id}"], [data-id="${id}"]`):
\* the row of the first element with that id, 0 when there is none
parentOf(rows, id) ==
  IF \E r \in DOMAIN rows : id \in Range(rows[r])
  THEN CHOOSE r \in DOMAIN rows :
         id \in Range(rows[r]) /\ \A q \in 1..(r-1) : id \notin Range(rows[q])
  ELSE 0

\* refreshBtn(btn, fromId, toId): the button shows the stored transition of the pair or '+'
refreshBtn(b, w, has, tr, h) ==
  [b EXCEPT !.type = IF getTransitionBetween(w, has, tr, h, b.from, b.to) # 0
                     THEN h[getTransitionBetween(w, has, tr, h, b.from, b.to)].type
                     ELSE "+"]

\* makePlusBtn(fromEl, toEl): nothing when a button of the pair is in the document,
\* else a button appended to the parent of fromEl
makePlusBtn(buttons, rows, fromId, toId, w, has, tr, h) ==
  IF fromId = toId \/ \E b \in buttons : b.from = fromId /\ b.to = toId
  THEN {}
  ELSE {refreshBtn([from |-> fromId, to |-> toId, row |-> parentOf(rows, fromId),
                    type |-> "+"], w, has, tr, h)}

\* inject(): makePlusBtn(sorted[i], sorted[i + 1]) for every row with two clips or more
inject(buttons, rows, w, has, tr, h) ==
  buttons \cup UNION {makePlusBtn(buttons, rows, p[1], p[2], w, has, tr, h) :
                        p \in AdjacentPairs(rows)}

\* the buttons refreshAllBtns() keeps: those whose from clip is in the document and
\* whose row is still the parent of that clip
keptBtns(buttons, rows) == {b \in buttons : parentOf(rows, b.from) = b.row}

\* refreshAllBtns(): remove the other buttons, position and refresh the kept ones
refreshAllBtns(buttons, rows, w, has, tr, h) ==
  {refreshBtn(b, w, has, tr, h) : b \in keptBtns(buttons, rows)}

----------------------------------------------------------------------------
(* Initial state: scripts loaded, nothing selected, nothing stored *)

Init ==
  /\ win \in WinConfigs
  /\ tracks = << <<"A", "B", "C">> >>
  /\ heap = [n \in InstIds |-> NoInst]
  /\ hasTransitions = FALSE
  /\ transitions = <<>>
  /\ mgrPanel = [c \in Clips |-> 0]
  /\ mgrInline = [c \in Clips |-> 0]
  /\ currentClipId = NoClip
  /\ pendingTransitions = <<>>
  /\ lastTrackSnapshot = NullSnapshot
  /\ resyncScheduled = FALSE
  /\ retryTimers = <<>>
  /\ intervalArmed = TRUE
  /\ preview = NoPreview
  /\ keyOrder = [panel |-> <<>>, inline |-> <<>>]
  /\ tracksDirty = TRUE
  /\ voice = NoVoice
  /\ dom = EmptyTimeline
  /\ last = [op |-> "init"]

----------------------------------------------------------------------------
(* Host application *)

\* the host publishes or withdraws its store, or opens or closes the project in it
HostSetStore(w) ==
  /\ w # win
  /\ win' = w
  /\ last' = [op |-> "hostSetStore"]
  /\ tracksDirty' = (tracksDirty \/ w.project # win.project)
  /\ UNCHANGED <<voice, dom>>
  /\ UNCHANGED <<tracks, heap, hasTransitions, transitions, mgrPanel, mgrInline,
                 currentClipId, pendingTransitions, lastTrackSnapshot, resyncScheduled,
                 retryTimers, intervalArmed, preview, keyOrder>>

\* the host inserts, deletes or reorders clips
HostEditTracks(layout) ==
  /\ layout # tracks
  /\ tracks' = layout
  /\ tracksDirty' = TRUE
  /\ UNCHANGED <<voice, dom>>
  /\ last' = [op |-> "hostEditTracks"]
  /\ UNCHANGED <<win, heap, hasTransitions, transitions, mgrPanel, mgrInline,
                 currentClipId, pendingTransitions, lastTrackSnapshot, resyncScheduled,
                 retryTimers, intervalArmed, preview, keyOrder>>

----------------------------------------------------------------------------
(* Panel (TransitionsUI) *)

\* setSelectedClip(clipId)
setSelectedClip(clipId) ==
  /\ clipId # currentClipId
  /\ currentClipId' = clipId
  /\ last' = [op |-> "setSelectedClip"]
  /\ UNCHANGED <<win, tracks, heap, hasTransitions, transitions, mgrPanel, mgrInline,
                 pendingTransitions, lastTrackSnapshot, resyncScheduled, retryTimers,
                 tracksDirty, voice, dom, intervalArmed, preview, keyOrder>>

\* selectTransition(transitionId): a card of the grid is clicked; the handler is
\* followed by updateCurrentTransitionUI() and playPreview() unless it threw
selectTransition(transitionId) ==
  /\ currentClipId # NoClip
  /\ findById(transitionId) # {}
  /\ HasRoom(heap)
  /\ \E requested \in {TRANSITION_TYPES[CHOOSE k \in findById(transitionId) : TRUE].defaultDuration} :
     \E r \in {handleTransitionSelect(win, tracks, hasTransitions, transitions, heap, mgrPanel,
                                      currentClipId, transitionId, requested)} :
        /\ hasTransitions' = r.has
        /\ Commit(r.heap, r.transitions, r.map, mgrInline,
                  [op |-> "selectTransition", type |-> transitionId,
                   requested |-> requested, inst |-> r.inst, outcome |-> r.outcome,
                   hooks |-> r.hooks, notified |-> r.notified])
        /\ preview' = IF r.outcome = "unknownType" THEN preview ELSE playPreview(preview)
        /\ keyOrder' = [keyOrder EXCEPT !.panel =
                          reorder(@, r.map, IF r.outcome = "added"
                                            THEN <<currentClipId, r.nextClip>> ELSE <<>>)]
  /\ UNCHANGED <<win, tracks, currentClipId, pendingTransitions,
                 lastTrackSnapshot, resyncScheduled, retryTimers, tracksDirty, voice, dom, intervalArmed>>

\* the panel's duration slider is moved
durationSlider(value) ==
  /\ currentClipId # NoClip
  /\ \E r \in {handleTransitionUpdate(win, tracks, hasTransitions, transitions, heap, mgrPanel,
                                      currentClipId, value)} :
        /\ hasTransitions' = r.has
        /\ Commit(r.heap, r.transitions, mgrPanel, mgrInline,
                  [op |-> "durationSlider", inst |-> r.inst, outcome |-> r.outcome])
  /\ UNCHANGED <<win, tracks, currentClipId, pendingTransitions,
                 lastTrackSnapshot, resyncScheduled, retryTimers, tracksDirty, voice, dom, intervalArmed, preview, keyOrder>>

\* the panel's remove button is clicked: manager.removeTransition, then
\* handleTransitionRemove -> removeTransitionFromProject
removeButton ==
  /\ currentClipId # NoClip
  /\ \E r \in {removeTransition(mgrPanel, heap, currentClipId)},
        tr \in {removeTransitionFromProject(win, hasTransitions, transitions, heap,
                                            currentClipId)} :
        /\ Commit(heap, tr, r.map, mgrInline,
                  [op |-> "removeButton", ret |-> r.ret,
                   touched |-> TouchedByAny(mgrPanel, transitions, heap, currentClipId),
                   removed |-> Len(transitions) - Len(tr),
                   hooks |-> IF /\ Located(getEditorStoreFromWindow(win))
                                /\ win.project /\ hasTransitions
                             THEN {"saveNow"} ELSE {}])
        /\ keyOrder' = [keyOrder EXCEPT !.panel = reorder(@, r.map, <<>>)]
  /\ UNCHANGED <<win, tracks, hasTransitions, currentClipId, pendingTransitions,
                 lastTrackSnapshot, resyncScheduled, retryTimers, tracksDirty, voice, dom, intervalArmed, preview>>

\* the play button is clicked
playButton ==
  /\ preview.mounted
  /\ Cardinality(preview.scheduled) < MaxScheduled
  /\ preview' = playPreview(preview)
  /\ last' = [op |-> "playPreview"]
  /\ UNCHANGED <<win, tracks, heap, hasTransitions, transitions, mgrPanel, mgrInline,
                 currentClipId, pendingTransitions, lastTrackSnapshot, resyncScheduled,
                 retryTimers, tracksDirty, voice, dom, intervalArmed, keyOrder>>

\* time between two frames, and the longest playback followed, in tenths of a second
FrameSteps == {2, 5}
MaxElapsed == 14

\* a progress that stops short of 1
progressBelowOne(elapsed) == Min(9, elapsed)

\* Math.min(1, elapsed / duration) with duration = 1000 ms, in tenths
progressAt(elapsed) == Min(10, elapsed)

\* the browser runs a scheduled animate callback, at a time later than the frame
\* before it
animationFrame ==
  /\ \E id \in preview.scheduled, step \in FrameSteps :
        /\ preview.elapsed + step <= MaxElapsed
        /\ \E progress \in {progressAt(preview.elapsed + step)} :
              /\ preview' = [animate(preview, id, ~(progress < 10))
                               EXCEPT !.elapsed = preview.elapsed + step,
                                      !.progress = progress]
              /\ last' = [op |-> "animate", finished |-> ~(progress < 10),
                          afterCancel |-> preview.cancelled]
  /\ UNCHANGED <<win, tracks, heap, hasTransitions, transitions, mgrPanel, mgrInline,
                 currentClipId, pendingTransitions, lastTrackSnapshot, resyncScheduled,
                 retryTimers, tracksDirty, voice, dom, intervalArmed, keyOrder>>

\* show()
showUI ==
  /\ preview' = [preview EXCEPT !.visible = TRUE]
  /\ last' = [op |-> "show"]
  /\ UNCHANGED <<win, tracks, heap, hasTransitions, transitions, mgrPanel, mgrInline,
                 currentClipId, pendingTransitions, lastTrackSnapshot, resyncScheduled,
                 retryTimers, tracksDirty, voice, dom, intervalArmed, keyOrder>>

\* hide()
hideUI ==
  /\ preview' = canonical([cancelAnimationFrame(preview)
                             EXCEPT !.visible = FALSE, !.cancelled = TRUE])
  /\ last' = [op |-> "hide", started |-> preview.started,
              wasScheduled |-> preview.scheduled # {}]
  /\ UNCHANGED <<win, tracks, heap, hasTransitions, transitions, mgrPanel, mgrInline,
                 currentClipId, pendingTransitions, lastTrackSnapshot, resyncScheduled,
                 retryTimers, tracksDirty, voice, dom, intervalArmed, keyOrder>>

\* TransitionsUI.destroy()
destroyUI ==
  /\ preview' = canonical([cancelAnimationFrame(preview)
                             EXCEPT !.mounted = FALSE, !.cancelled = TRUE])
  /\ last' = [op |-> "destroyUI", started |-> preview.started,
              wasScheduled |-> preview.scheduled # {}]
  /\ UNCHANGED <<win, tracks, heap, hasTransitions, transitions, mgrPanel, mgrInline,
                 currentClipId, pendingTransitions, lastTrackSnapshot, resyncScheduled,
                 retryTimers, tracksDirty, voice, dom, intervalArmed, keyOrder>>

----------------------------------------------------------------------------
(* Inline picker *)

\* saveTransitionToStore(fromId, toId, type, duration): without a store it re-arms
\* itself after 500 ms, with one it writes; on a store without a project reading
\* store.project.transitions throws a TypeError out of the handler
\* a later pick for the same clip pair is waiting too: the armed retries of the
\* pair are marked with its type
supersede(timers, fromId, toId, type) ==
  [i \in DOMAIN timers |->
     IF timers[i].fromId = fromId /\ timers[i].toId = toId
     THEN [timers[i] EXCEPT !.latest = type] ELSE timers[i]]

\* (at most 'limit' retries are followed at a time; 'latest' is the type picked last
\* for the pair when the call is a retry, the type itself when it is a pick)
saveOrRetry(limit, latest, fromId, toId, type, duration, timers, opName) ==
  IF ~Located(getStore(win))
  THEN /\ Len(timers) < limit
       /\ retryTimers' = Append(IF opName = "cardClick"
                                THEN supersede(timers, fromId, toId, type) ELSE timers,
                                [fromId |-> fromId, toId |-> toId, type |-> type,
                                 duration |-> duration, latest |-> latest])
       /\ last' = [op |-> opName, inst |-> 0, outcome |-> "retry", hooks |-> {},
                   latest |-> latest]
       /\ UNCHANGED <<heap, hasTransitions, transitions, mgrPanel, mgrInline, keyOrder>>
  ELSE IF ~win.project
  THEN /\ retryTimers' = timers
       /\ last' = [op |-> opName, inst |-> 0, outcome |-> "threw", hooks |-> {},
                   latest |-> latest]
       /\ UNCHANGED <<heap, hasTransitions, transitions, mgrPanel, mgrInline, keyOrder>>
  ELSE /\ HasRoom(heap)
       /\ \E r \in {saveTransitionToStore(transitions, heap, mgrInline,
                                           fromId, toId, type, duration)} :
             /\ retryTimers' = timers
             /\ hasTransitions' = TRUE
             /\ Commit(r.heap, r.transitions, mgrPanel, r.map,
                       [op |-> opName, inst |-> r.inst, outcome |-> "saved",
                        hooks |-> {"saveNow", "pushSnapshot"},
                        latest |-> latest])
             /\ keyOrder' = [keyOrder EXCEPT !.inline = reorder(@, r.map, <<fromId, toId>>)]

\* a card of the picker opened on the "+" button of (fromId, toId) is clicked
cardClickWithin(limit, fromId, toId, tId) ==
  /\ <<fromId, toId>> \in AdjacentPairs(tracks)
  /\ saveOrRetry(limit, tId, fromId, toId, tId,
                 IF findById(tId) # {}
                 THEN TRANSITION_TYPES[CHOOSE k \in findById(tId) : TRUE].defaultDuration
                 ELSE DefaultRequest,
                 retryTimers, "cardClick")
  /\ UNCHANGED <<win, tracks, currentClipId, pendingTransitions,
                 lastTrackSnapshot, resyncScheduled, tracksDirty, voice, dom, intervalArmed, preview>>

cardClick(fromId, toId, tId) == cardClickWithin(MaxRetry, fromId, toId, tId)

\* the 500 ms retry of saveTransitionToStore that was armed first fires
retryFireWithin(limit) ==
  /\ retryTimers # <<>>
  /\ LET t == Head(retryTimers)
     IN saveOrRetry(limit, t.latest, t.fromId, t.toId, t.type, t.duration,
                    Tail(retryTimers), "retryFire")
  /\ UNCHANGED <<win, tracks, currentClipId, pendingTransitions,
                 lastTrackSnapshot, resyncScheduled, tracksDirty, voice, dom, intervalArmed, preview>>

retryFire == retryFireWithin(MaxRetry)

\* the picker's duration slider (shown for an existing transition) is moved
inlineSlider(fromId, toId, value) ==
  /\ <<fromId, toId>> \in AdjacentPairs(tracks)
  /\ LET cur == getTransitionBetween(win, hasTransitions, transitions, heap, fromId, toId)
     IN /\ cur # 0
        /\ heap' = [heap EXCEPT ![cur].duration = value]
        /\ last' = [op |-> "inlineSlider", inst |-> cur]
  /\ UNCHANGED <<win, tracks, hasTransitions, transitions, mgrPanel, mgrInline,
                 currentClipId, pendingTransitions, lastTrackSnapshot, resyncScheduled,
                 retryTimers, tracksDirty, voice, dom, intervalArmed, preview, keyOrder>>

\* the picker's remove button (shown for an existing transition) is clicked
inlineRemove(fromId, toId) ==
  /\ <<fromId, toId>> \in AdjacentPairs(tracks)
  /\ getTransitionBetween(win, hasTransitions, transitions, heap, fromId, toId) # 0
  /\ \E r \in {removeTransitionFromStore(transitions, heap, mgrInline, fromId, toId)} :
        /\ Commit(heap, r.transitions, mgrPanel, r.map,
                  [op |-> "inlineRemove", hooks |-> {"saveNow", "pushSnapshot"}])
        /\ keyOrder' = [keyOrder EXCEPT !.inline = reorder(@, r.map, <<>>)]
  /\ UNCHANGED <<win, tracks, hasTransitions, currentClipId,
                 pendingTransitions, lastTrackSnapshot, resyncScheduled, retryTimers,
                 tracksDirty, voice, dom, intervalArmed, preview>>

\* the re-inject/sync timeout set by a poll tick fires:
\* window.TransitionsIntegration?.syncFromStore?.(), which runs syncFromStore() when
\* the API object set last on the window is the inline picker's (exposed), and
\* nothing when it is the panel's or none; syncFromStore() ends with refreshAllBtns()
resyncFire(exposed) ==
  /\ resyncScheduled
  /\ resyncScheduled' = FALSE
  /\ Commit(heap, transitions, mgrPanel,
            IF exposed /\ Located(getStore(win)) /\ win.project /\ hasTransitions
            THEN syncFromStore(transitions, heap, mgrInline) ELSE mgrInline,
            [op |-> "resyncFire"])
  /\ keyOrder' = IF exposed /\ Located(getStore(win)) /\ win.project /\ hasTransitions
                 THEN [keyOrder EXCEPT !.inline =
                         appendNew(@, endpointsInOrder(transitions, heap))]
                 ELSE keyOrder
  /\ dom' = IF exposed /\ Located(getStore(win)) /\ win.project /\ hasTransitions
            THEN [dom EXCEPT !.buttons = refreshAllBtns(@, dom.rows, win, hasTransitions,
                                                        transitions, heap),
                             !.debounce = @ \/ dom.buttons # {}]
            ELSE dom
  /\ UNCHANGED <<win, tracks, hasTransitions, currentClipId,
                 pendingTransitions, lastTrackSnapshot, retryTimers, tracksDirty, voice,
                 intervalArmed, preview>>

----------------------------------------------------------------------------
(* TransitionsStoreMonitor *)

\* handleTransition(clipId, transitionType, options): a 'transitions:add' event
handleTransition(clipId, transitionType, duration) ==
  /\ IF Located(getEditorStore(win))
     THEN \E r \in {addTransitionToProject(projectTracks(win, tracks), hasTransitions,
                                            transitions, heap,
                                            mgrPanel, mgrInline, clipId, transitionType,
                                            duration)} :
             /\ r.outcome # "noRoom"
             /\ hasTransitions' = r.has
             /\ pendingTransitions' = pendingTransitions
             /\ Commit(r.heap, r.transitions, mgrPanel, mgrInline,
                       [op |-> "handleTransition", requested |-> duration,
                        inst |-> r.inst, outcome |-> r.outcome,
                        hooks |-> r.hooks, notified |-> r.notified])
     ELSE /\ Len(pendingTransitions) < MaxQueue
          /\ pendingTransitions' = Append(pendingTransitions,
                 [clipId |-> clipId, transitionType |-> transitionType, duration |-> duration])
          /\ last' = [op |-> "handleTransition", requested |-> duration,
                      inst |-> 0, outcome |-> "queued", hooks |-> {}, notified |-> "none"]
          /\ UNCHANGED <<heap, hasTransitions, transitions, mgrPanel, mgrInline>>
  /\ UNCHANGED <<win, tracks, currentClipId, lastTrackSnapshot,
                 resyncScheduled, retryTimers, tracksDirty, voice, dom, intervalArmed, preview, keyOrder>>

\* project.transitions as the sequence of its instances' fields
storedRecords(tr, h) == [i \in DOMAIN tr |-> h[tr[i]]]

\* one run of the 500 ms setInterval callback of startMonitoring; the 200 ms timeout
\* set by an earlier run has fired by then
pollTick ==
  /\ intervalArmed
  /\ ~resyncScheduled
  /\ IF ~Located(getEditorStore(win))
     THEN /\ last' = [op |-> "pollTick", located |-> FALSE, drained |-> 0,
                      signalled |-> FALSE, unchanged |-> FALSE,
                      queue |-> pendingTransitions, outcomes |-> <<>>, hooks |-> <<>>,
                      before |-> storedRecords(transitions, heap),
                      snapshotBefore |-> lastTrackSnapshot]
          /\ UNCHANGED <<heap, hasTransitions, transitions, mgrPanel, mgrInline,
                         pendingTransitions, lastTrackSnapshot, resyncScheduled, tracksDirty, voice, dom>>
     ELSE \E r \in {flushPending(pendingTransitions, projectTracks(win, tracks),
                                  hasTransitions, transitions, heap, mgrPanel, mgrInline)},
             snapshot \in {TrackSnapshot(projectTracks(win, tracks))} :
             /\ \A i \in DOMAIN r.outcomes : r.outcomes[i] # "noRoom"
             /\ hasTransitions' = r.has
             /\ pendingTransitions' = r.queue
             /\ lastTrackSnapshot' = IF snapshotChanged(snapshot, lastTrackSnapshot)
                                     THEN snapshot ELSE lastTrackSnapshot
             /\ resyncScheduled' = snapshotChanged(snapshot, lastTrackSnapshot)
             /\ tracksDirty' = FALSE
             /\ Commit(r.heap, r.transitions, mgrPanel, mgrInline,
                       [op |-> "pollTick", located |-> TRUE,
                        drained |-> Len(pendingTransitions),
                        signalled |-> snapshotChanged(snapshot, lastTrackSnapshot),
                        unchanged |-> ~tracksDirty,
                        queue |-> pendingTransitions, outcomes |-> r.outcomes,
                        hooks |-> r.hooks,
                        before |-> storedRecords(transitions, heap),
                        snapshotBefore |-> lastTrackSnapshot])
  /\ UNCHANGED <<win, tracks, currentClipId, retryTimers, intervalArmed, preview, keyOrder,
                 voice, dom>>

intervalLeftRunning(armed) == armed

\* clearInterval(this.storeCheckInterval): the interval no longer fires
clearInterval(armed) == FALSE

\* destroy(): if (this.storeCheckInterval) clearInterval(this.storeCheckInterval);
\* the handle is set once by startMonitoring and never reset
destroy ==
  /\ intervalArmed' = clearInterval(intervalArmed)
  /\ last' = [op |-> "destroy"]
  /\ UNCHANGED <<win, tracks, heap, hasTransitions, transitions, mgrPanel, mgrInline,
                 currentClipId, pendingTransitions, lastTrackSnapshot, resyncScheduled,
                 retryTimers, tracksDirty, voice, dom, preview, keyOrder>>

\* exportTransitions(): Array.from(this.transitions.values()), in key insertion order
exportTransitions(m, order) == [i \in DOMAIN order |-> m[order[i]]]

\* importTransitions(data): clear(), then each instance is set under both of its clips
RECURSIVE setAll(_, _, _)
setAll(m, h, data) ==
  IF data = <<>> THEN m
  ELSE setAll([[m EXCEPT ![h[Head(data)].fromClipId] = Head(data)]
                  EXCEPT ![h[Head(data)].toClipId] = Head(data)],
              h, Tail(data))

importTransitions(h, data) == setAll([c \in Clips |-> 0], h, data)

\* manager.importTransitions(manager.exportTransitions()) on the panel's or the inline
\* picker's manager
reimport(which) ==
  /\ last.op # "reimport"
  /\ LET m == IF which = "panel" THEN mgrPanel ELSE mgrInline
         data == exportTransitions(m, keyOrder[which])
     IN \E imported \in {importTransitions(heap, data)} :
          /\ Commit(heap, transitions,
                    IF which = "panel" THEN imported ELSE mgrPanel,
                    IF which = "panel" THEN mgrInline ELSE imported,
                    [op |-> "reimport", which |-> which,
                     held |-> {c \in Clips : m[c] # 0},
                     exported |-> Len(data),
                     changed |-> {c \in Clips : imported[c] # m[c]}])
          /\ keyOrder' = [keyOrder EXCEPT ![which] =
                            appendNew(<<>>, endpointsInOrder(data, heap))]
  /\ UNCHANGED <<win, tracks, hasTransitions, currentClipId, pendingTransitions,
                 lastTrackSnapshot, resyncScheduled, retryTimers, tracksDirty, voice, dom,
                 intervalArmed, preview>>

----------------------------------------------------------------------------
(* Specifications *)

HostNext ==
  \/ \E w \in WinConfigs : HostSetStore(w)
  \/ \E layout \in TrackLayouts : HostEditTracks(layout)

PanelNext ==
  \/ \E c \in Clips \cup {NoClip} : setSelectedClip(c)
  \/ \E t \in PanelTypes : selectTransition(t)
  \/ \E v \in SliderValues : durationSlider(v)
  \/ removeButton

InlineNext ==
  \/ \E a, b \in Clips, t \in InlineTypes : cardClick(a, b, t)
  \/ retryFire
  \/ \E a, b \in Clips, v \in SliderValues : inlineSlider(a, b, v)
  \/ \E a, b \in Clips : inlineRemove(a, b)

MonitorNext ==
  \/ \E c \in MonitorClips, t \in MonitorTypes, d \in MonitorDurations :
        handleTransition(c, t, d)
  \/ pollTick
  \/ resyncFire(FALSE)

\* the panel alone, against the host
SpecPanel == Init /\ [][HostNext \/ PanelNext]_vars

\* the inline picker alone, against the host
SpecInline == Init /\ [][HostNext \/ InlineNext]_vars

\* the store monitor alone, against the host
SpecMonitor == Init /\ [][HostNext \/ MonitorNext]_vars

\* the host has published its store before the scripts run
InitLocated == Init /\ win = EditorStoreWindow

\* the write and remove handlers of the three components interleaved on a located
\* store, on fewer inputs
Next ==
  \/ \E layout \in AllLayouts : HostEditTracks(layout)
  \/ \E c \in Clips \cup {NoClip} : setSelectedClip(c)
  \/ \E t \in AllPanelTypes : selectTransition(t)
  \/ removeButton
  \/ \E a, b \in Clips, t \in AllInlineTypes : cardClick(a, b, t)
  \/ \E a, b \in Clips : inlineRemove(a, b)
  \/ \E c \in MonitorClips, t \in AllMonitorTypes, d \in MonitorDurations :
        handleTransition(c, t, d)

Spec == InitLocated /\ [][Next]_vars

\* the store monitor against a host that only publishes or withdraws its store, with
\* the timers the page keeps firing: the setInterval tick and the pending setTimeout
LiveNext ==
  \/ \E w \in WinConfigs : HostSetStore(w)
  \/ handleTransition("A", "fade", 3000)
  \/ handleTransition("B", "wipeLeft", 3000)
  \/ pollTick
  \/ resyncFire(FALSE)

SpecMonitorLive ==
  Init /\ [][LiveNext]_vars /\ WF_vars(pollTick) /\ WF_vars(resyncFire(FALSE))

----------------------------------------------------------------------------
(* Properties *)

Stored == {transitions[i] : i \in DOMAIN transitions}

IsInst(n, fromId, toId, type) ==
  heap[n].fromClipId = fromId /\ heap[n].toClipId = toId /\ heap[n].type = type

\* C1: for every catalog type id, a panel add on a clip with a successor succeeds
\* (no unknown-type failure) and getTransitionBetween(clip, next) then returns an
\* instance of exactly that type
C1_AddThenGetBetween ==
  (last.op = "selectTransition" /\ last.outcome \notin {"clipNotFound", "noNextClip"}) =>
     /\ last.outcome = "added"
     /\ LET next == findClipInProjectPanel(tracks, TRUE, currentClipId).nextClip
            got == getTransitionBetween(win, hasTransitions, transitions, heap,
                                        currentClipId, next)
        IN got # 0 /\ heap[got].type = last.type

C1_MultiWordAddAttempted ==
  last.op = "selectTransition" /\ last.type = "wipeLeft" /\ last.outcome = "unknownType"

\* C2: after an add, the graph holds no other instance that shares an endpoint with
\* the instance just added (the prior instance is removed entirely, no half-edge)
C2_AddReplacesSharedEndpoint ==
  (last.op = "selectTransition" /\ last.outcome = "added") =>
     \A c \in Clips :
        LET m == getTransition(mgrPanel, c)
        IN (m # 0 /\ m # last.inst) =>
              {heap[m].fromClipId, heap[m].toClipId}
                 \cap {heap[last.inst].fromClipId, heap[last.inst].toClipId} = {}

C2_OrphanHalfEdge ==
  /\ last.op = "selectTransition" /\ last.outcome = "added"
  /\ IsInst(last.inst, "B", "C", "blur")
  /\ getTransition(mgrPanel, "B") = last.inst
  /\ getTransition(mgrPanel, "A") # 0
  /\ IsInst(getTransition(mgrPanel, "A"), "A", "B", "crossfade")

\* C3: no two instances of project.transitions have the same unordered endpoint
\* pair, whatever the order of panel, inline-picker and store-monitor writes
C3_UnorderedPairUnique ==
  \A i, j \in DOMAIN transitions :
     i # j => {heap[transitions[i]].fromClipId, heap[transitions[i]].toClipId}
              # {heap[transitions[j]].fromClipId, heap[transitions[j]].toClipId}

C3_ThreeWritersStored ==
  /\ last.op = "cardClick" /\ last.outcome = "saved"
  /\ {heap[n].type : n \in Stored} = {"crossfade", "wipeLeft", "fade"}
  /\ IsInst(last.inst, "B", "A", "wipeLeft")

\* C4: every stored instance has duration <= min(from clip, to clip duration) / 2
C4_DurationWithinHalf ==
  \A n \in Stored :
     heap[n].duration
        <= Min(ClipDuration[heap[n].fromClipId], ClipDuration[heap[n].toClipId]) \div 2

C4_InlineUnclamped ==
  /\ last.op = "cardClick" /\ last.outcome = "saved"
  /\ last.inst \in Stored
  /\ IsInst(last.inst, "A", "B", "wipeLeft")
  /\ heap[last.inst].duration = 800

\* C5: an add through the panel handler or the store monitor stores, between the
\* clip and its successor, min(requested, min(clip, next clip duration) / 2)
C5_StoredDurationIsClamped ==
  (last.op \in {"selectTransition", "handleTransition"} /\ last.outcome = "added") =>
     LET t == heap[last.inst]
     IN /\ last.inst \in Stored
        /\ t.toClipId = findClipInProject(tracks, TRUE, t.fromClipId).nextClip
        /\ t.duration = Min(last.requested,
                            Min(ClipDuration[t.fromClipId], ClipDuration[t.toClipId]) \div 2)

C5_ThreeSecondsOnFourAndOne ==
  /\ last.op = "handleTransition" /\ last.outcome = "added" /\ last.requested = 3000
  /\ ClipDuration["A"] = 4000 /\ ClipDuration["B"] = 1000
  /\ heap[last.inst].fromClipId = "A" /\ heap[last.inst].toClipId = "B"
  /\ heap[last.inst].duration = 500

\* C6: a located poll tick on track A,B,C that drains the queue (A, fade), (B, wipeLeft)
\* leaves both instances in project.transitions, (A,B) before (B,C)
C6_QueueReplayOrder ==
  [][ ( /\ last'.op = "pollTick" /\ last'.located
        /\ tracks = << <<"A", "B", "C">> >>
        /\ Len(pendingTransitions) = 2
        /\ pendingTransitions[1].clipId = "A" /\ pendingTransitions[1].transitionType = "fade"
        /\ pendingTransitions[2].clipId = "B"
        /\ pendingTransitions[2].transitionType = "wipeLeft" )
      => \E i, j \in DOMAIN transitions' :
            /\ i < j
            /\ heap'[transitions'[i]].fromClipId = "A" /\ heap'[transitions'[i]].toClipId = "B"
            /\ heap'[transitions'[i]].type = "fade"
            /\ heap'[transitions'[j]].fromClipId = "B" /\ heap'[transitions'[j]].toClipId = "C"
            /\ heap'[transitions'[j]].type = "wipeLeft" ]_vars

C6_SecondReplacedFirst ==
  /\ last.op = "pollTick" /\ last.located /\ last.drained = 2
  /\ Len(transitions) = 1
  /\ IsInst(transitions[1], "B", "C", "wipeLeft")

\* C7: nothing is written while the store cannot be located, and an add for clip A
\* queued meanwhile is in project.transitions at some later time if the store is
\* located from some time on
C7_QueuedAddEventuallyStored ==
  /\ [][~Located(getEditorStore(win)) => transitions' = transitions]_vars
  /\ []( (\E i \in DOMAIN pendingTransitions :
             pendingTransitions[i].clipId = "A" /\ pendingTransitions[i].transitionType = "fade")
         => ( []<>(~Located(getEditorStore(win)))
              \/ <>(\E n \in Stored : IsInst(n, "A", "B", "fade")) ) )

C7_DrainedWithoutFirstAdd ==
  /\ last.op = "pollTick" /\ last.located /\ last.drained = 2
  /\ ~ \E n \in Stored : IsInst(n, "A", "B", "fade")

\* C8: a located poll tick with no track change since the previous located tick
\* computes the snapshot that tick left, keeps it, and schedules no re-injection
C8_IdempotentPolling ==
  [][ (last'.op = "pollTick" /\ last'.located /\ ~tracksDirty)
      => /\ TrackSnapshot(tracks') = lastTrackSnapshot
         /\ lastTrackSnapshot' = lastTrackSnapshot
         /\ ~last'.signalled
         /\ ~resyncScheduled' ]_vars

C8_SecondTickQuiet ==
  /\ last.op = "pollTick" /\ last.located /\ last.unchanged
  /\ ~last.signalled /\ ~resyncScheduled
  /\ lastTrackSnapshot = TrackSnapshot(tracks)

\* C9: the remove button on a clip no transition touches returns false and leaves the
\* graph and project.transitions as they were
C9_RemoveUntouchedIsNoOp ==
  [][ (last'.op = "removeButton"
       /\ ~TouchedByAny(mgrPanel, transitions, heap, currentClipId))
      => /\ last'.ret = FALSE
         /\ mgrPanel' = mgrPanel
         /\ transitions' = transitions
         /\ heap' = heap ]_vars

C9_RemoveOnUntouchedClip ==
  /\ last.op = "removeButton" /\ ~last.touched /\ ~last.ret
  /\ transitions # <<>>
  /\ \E c \in Clips : getTransition(mgrPanel, c) # 0

\* C10: neither the graphs nor project.transitions ever hold an instance whose type
\* is not a catalog id
C10_OnlyCatalogTypes ==
  /\ \A n \in Stored : heap[n].type \in CatalogIds
  /\ \A c \in Clips :
        /\ mgrPanel[c] # 0 => heap[mgrPanel[c]].type \in CatalogIds
        /\ mgrInline[c] # 0 => heap[mgrInline[c]].type \in CatalogIds

C10_UnknownTypeStored ==
  /\ last.op = "handleTransition" /\ last.outcome = "added"
  /\ heap[last.inst].type = "fade"
  /\ "fade" \notin CatalogIds

Endpoints(n) == {heap[n].fromClipId, heap[n].toClipId}

\* C11: right after a successful write the new instance is the last element of
\* project.transitions and no other stored instance shares an endpoint with it
C11_WriteReplacesSharedEndpoints ==
  (last.op \in {"selectTransition", "handleTransition", "cardClick"}
     /\ last.outcome \in {"added", "saved"}) =>
     /\ transitions # <<>>
     /\ transitions[Len(transitions)] = last.inst
     /\ \A n \in Stored \ {last.inst} : Endpoints(n) \cap Endpoints(last.inst) = {}

C11_SharedEndpointKept ==
  /\ last.op = "handleTransition" /\ last.outcome = "added"
  /\ IsInst(last.inst, "A", "B", "fade")
  /\ transitions[Len(transitions)] = last.inst
  /\ \E n \in Stored : heap[n].fromClipId = "B" /\ heap[n].toClipId = "C"

\* C12: removing the transition of a clip pair from the inline picker removes the
\* instance stored on that pair in either direction, and every instance on another
\* pair stays in project.transitions and stays returned by the picker's graph for
\* each endpoint that returned it before
C12_RemoveIsSymmetricAndPrecise ==
  [][ \A a, b \in Clips :
        inlineRemove(a, b) =>
          /\ \A j \in DOMAIN transitions' :
                {heap'[transitions'[j]].fromClipId, heap'[transitions'[j]].toClipId} # {a, b}
          /\ \A n \in Stored :
                Endpoints(n) # {a, b} =>
                  /\ \E j \in DOMAIN transitions' : heap'[transitions'[j]] = heap[n]
                  /\ \A c \in Endpoints(n) :
                        getTransition(mgrInline, c) = n =>
                          /\ getTransition(mgrInline', c) # 0
                          /\ heap'[getTransition(mgrInline', c)] = heap[n] ]_vars

C12_NeighbourDroppedFromGraph ==
  /\ last.op = "inlineRemove"
  /\ Len(transitions) = 1
  /\ heap[transitions[1]].fromClipId = "B" /\ heap[transitions[1]].toClipId = "C"
  /\ getTransition(mgrInline, "B") = 0
  /\ getTransition(mgrInline, "C") = transitions[1]

\* C13: the panel graph's remove(clipId) returns true iff the graph holds an instance
\* touching clipId; the removed instance's endpoints then return none unless another
\* instance touches them, and every other instance is still returned for every
\* endpoint that returned it
C13_RemoveExactlyTheInstance ==
  [][ (last'.op = "removeButton") =>
        LET t == getTransition(mgrPanel, currentClipId)
        IN /\ last'.ret = (\E c \in Clips : Touches(heap, mgrPanel[c], currentClipId))
           /\ t # 0 =>
                \A c \in Endpoints(t) :
                   (\A d \in Clips : mgrPanel[d] \in {0, t} \/ c \notin Endpoints(mgrPanel[d]))
                      => getTransition(mgrPanel', c) = 0
           /\ \A c \in Clips :
                 mgrPanel[c] \notin {0, t} =>
                    /\ getTransition(mgrPanel', c) # 0
                    /\ heap'[getTransition(mgrPanel', c)] = heap[mgrPanel[c]] ]_vars

C13_OtherInstanceUnregistered ==
  /\ last.op = "removeButton" /\ last.ret
  /\ currentClipId = "A"
  /\ getTransition(mgrPanel, "B") = 0
  /\ getTransition(mgrPanel, "C") # 0
  /\ heap[getTransition(mgrPanel, "C")].fromClipId = "B"

\* C14: in each graph, get(clipId) returns an instance only if clipId is one of its
\* endpoints, and returns none only if no instance the graph holds touches clipId
C14_GetMatchesGraph ==
  \A m \in {mgrPanel, mgrInline} :
     \A c \in Clips :
        /\ getTransition(m, c) # 0 => c \in Endpoints(getTransition(m, c))
        /\ getTransition(m, c) = 0 =>
              \A d \in Clips : getTransition(m, d) # 0 => c \notin Endpoints(getTransition(m, d))

C14_HeldButNotReturned ==
  /\ last.op = "removeButton" /\ last.ret
  /\ getTransition(mgrPanel, "B") = 0
  /\ getTransition(mgrPanel, "A") # 0
  /\ "B" \in Endpoints(getTransition(mgrPanel, "A"))

----------------------------------------------------------------------------
(* Store discovery on its own: the host exposes the store in any           *)
(* combination of routes and each component looks it up                    *)

PiniaRegistries == {<<>>, <<"editor">>, <<"Project">>, <<"cart", "editor">>}

LocateWindows ==
  [editorStore : BOOLEAN, pinia : PiniaRegistries,
   useEditorStore : {"absent", "store", "undefined", "throws"},
   projectStore : {"absent", "store", "plain"}, project : {TRUE}]

\* each component looks the store up; a throw escaping a lookup would leave no result
locate ==
  /\ last.op # "locate"
  /\ last' = [op |-> "locate",
              inline |-> getStore(win),
              panel |-> getEditorStoreFromWindow(win),
              monitor |-> getEditorStore(win)]
  /\ UNCHANGED <<win, tracks, heap, hasTransitions, transitions, mgrPanel, mgrInline,
                 currentClipId, pendingTransitions, lastTrackSnapshot, resyncScheduled,
                 retryTimers, tracksDirty, voice, dom, intervalArmed, preview, keyOrder>>

LocateNext ==
  \/ \E w \in LocateWindows : HostSetStore(w)
  \/ locate

SpecLocate == Init /\ [][LocateNext]_vars

\* the lookup order stated for locate(), given the name test a lookup uses
locateInOrder(w, matching) ==
  IF w.editorStore THEN Found("editorStore", 0)
  ELSE IF firstEntry(w.pinia, matching) # 0 THEN Found("pinia", firstEntry(w.pinia, matching))
  ELSE IF w.useEditorStore = "store" THEN Found("useEditorStore", 0)
  ELSE IF w.projectStore = "store" THEN Found("projectStore", 0)
  ELSE Null

\* C15: every lookup returns the first match in the order global store, matching
\* plugin-store entry, accessor result, conventionally named global, and is falsy
\* only if none of the four yields a store
C15_LocateInFixedOrder ==
  last.op = "locate" =>
     LET regex == {n \in DOMAIN StoreNameChars : testEditorOrProject(n)}
         substr == {n \in DOMAIN StoreNameChars : includesEditorOrProject(n)}
         same(r, e) == IF Located(e) THEN r = e ELSE ~Located(r)
     IN /\ same(last.inline, locateInOrder(win, regex))
        /\ same(last.panel, locateInOrder(win, substr))
        /\ same(last.monitor, locateInOrder(win, regex))

C15_NamedGlobalNotTried ==
  /\ last.op = "locate"
  /\ win = [NoWindow EXCEPT !.projectStore = "store"]
  /\ last.panel = Found("projectStore", 0)
  /\ last.monitor = Null
  /\ last.inline = Null

----------------------------------------------------------------------------
(* The store in its partial shapes: absent, present without a project, and *)
(* present with a project whose transitions list may not exist yet         *)

ProjectlessWindow == [EditorStoreWindow EXCEPT !.project = FALSE]

ShapeWindows == {NoWindow, ProjectlessWindow, EditorStoreWindow}

ShapesNext ==
  \/ \E w \in ShapeWindows : HostSetStore(w)
  \/ \E c \in {"A", NoClip} : setSelectedClip(c)
  \/ \E t \in AllPanelTypes : selectTransition(t)
  \/ \E v \in SliderValues : durationSlider(v)
  \/ removeButton
  \/ \E a, b \in Clips, t \in AllInlineTypes : cardClick(a, b, t)
  \/ retryFire
  \/ \E a, b \in Clips : inlineRemove(a, b)

SpecShapes == Init /\ [][ShapesNext]_vars

\* the handlers that write to or remove from the store
StoreWriters == {"selectTransition", "durationSlider", "cardClick", "retryFire"}

\* C16: with no store located, or a located store without a project, a write
\* completes without throwing
C16_NoThrowOnPartialStore ==
  (last.op \in StoreWriters /\ (~Located(getStore(win)) \/ ~win.project))
     => last.outcome # "threw"

C16_WriteOnProjectlessStore ==
  /\ last.op = "cardClick"
  /\ win = ProjectlessWindow
  /\ last.outcome = "threw"

----------------------------------------------------------------------------
(* Requests on clips without a following clip: the panel and the store     *)
(* monitor against a host that also deletes the last clip                  *)

SuccessorLayouts == { << <<"A", "B", "C">> >>, << <<"A", "B">> >> }

\* the clips requests are made on: the last two of the full track
LateClips == {"B", "C"}

NoSuccessorNext ==
  \/ \E w \in WinConfigs : HostSetStore(w)
  \/ \E layout \in SuccessorLayouts : HostEditTracks(layout)
  \/ \E c \in LateClips \cup {NoClip} : setSelectedClip(c)
  \/ \E t \in AllPanelTypes : selectTransition(t)
  \/ \E c \in LateClips, t \in AllMonitorTypes, d \in MonitorDurations :
        handleTransition(c, t, d)

SpecNoSuccessor == Init /\ [][NoSuccessorNext]_vars

\* the clip is in some track
InSomeTrack(tks, clipId) == \E t \in DOMAIN tks : IndexIn(tks[t], clipId) # 0

\* the clip is the last of its track, or in no track
NoSuccessorIn(tks, clipId) ==
  \A t \in DOMAIN tks : \A i \in DOMAIN tks[t] : tks[t][i] = clipId => i = Len(tks[t])

\* the graphs, project.transitions and the queues and timers are as before
NothingChanged ==
  UNCHANGED <<heap, hasTransitions, transitions, mgrPanel, mgrInline, pendingTransitions,
              retryTimers, lastTrackSnapshot, resyncScheduled>>

\* C17 (as stated): a request for a clip that is last in its track or in no track
\* shows a warning, changes nothing (graph, project.transitions, pending queue) and
\* invokes no persistence or refresh hook
C17_NoSuccessorWarnsAndChangesNothing ==
  [][ /\ \A t \in AllPanelTypes :
           (selectTransition(t) /\ NoSuccessorIn(tracks, currentClipId)) =>
              NothingChanged /\ last'.hooks = {} /\ last'.notified = "warning"
      /\ \A c \in LateClips, t \in AllMonitorTypes, d \in MonitorDurations :
           (handleTransition(c, t, d) /\ NoSuccessorIn(tracks, c)) =>
              NothingChanged /\ last'.hooks = {} /\ last'.notified = "warning" ]_vars

\* C17 (amended): with the store located, a request for a clip that is last in its
\* track shows a warning and a request for a clip in no track reports an error (an
\* error notification in the panel, console.error in the store monitor); either way
\* the graphs, project.transitions and the pending queue are unchanged and no hook runs
C17_NoSuccessorChangesNothing ==
  [][ /\ \A t \in AllPanelTypes :
           (selectTransition(t) /\ NoSuccessorIn(tracks, currentClipId)) =>
              /\ NothingChanged
              /\ last'.hooks = {}
              /\ last'.notified = IF InSomeTrack(tracks, currentClipId)
                                  THEN "warning" ELSE "error"
      /\ \A c \in LateClips, t \in AllMonitorTypes, d \in MonitorDurations :
           (handleTransition(c, t, d) /\ Located(getEditorStore(win))
              /\ NoSuccessorIn(projectTracks(win, tracks), c)) =>
              /\ NothingChanged
              /\ last'.hooks = {}
              /\ last'.notified = IF InSomeTrack(projectTracks(win, tracks), c)
                                  THEN "warning" ELSE "consoleError" ]_vars

C17_LastClipRefused ==
  /\ last.op = "handleTransition"
  /\ last.outcome = "noNextClip"
  /\ last.notified = "warning"
  /\ transitions # <<>>
  /\ mgrPanel # [c \in Clips |-> 0]

----------------------------------------------------------------------------
(* Requested durations of any sign: 'transitions:add' events carry         *)
(* options.duration as the dispatching code set it                         *)

RequestedDurations == {-1000, 0, 3000}

DurationsNext ==
  \/ \E w \in WinConfigs : HostSetStore(w)
  \/ \E c \in MonitorClips, t \in AllMonitorTypes, d \in RequestedDurations :
        handleTransition(c, t, d)
  \/ pollTick
  \/ resyncFire(FALSE)

SpecDurations == Init /\ [][DurationsNext]_vars

\* C18: no stored instance has a duration that is zero or negative
C18_StoredDurationsPositive == \A n \in Stored : heap[n].duration > 0

C18_NegativeRequestStored ==
  /\ last.op = "handleTransition"
  /\ last.outcome = "added"
  /\ last.requested < 0
  /\ last.inst \in Stored
  /\ heap[last.inst].duration = last.requested

----------------------------------------------------------------------------
(* The store monitor with its destroy() *)

StopNext ==
  \/ \E w \in WinConfigs : HostSetStore(w)
  \/ \E layout \in AllLayouts : HostEditTracks(layout)
  \/ \E c \in MonitorClips, t \in AllMonitorTypes, d \in MonitorDurations :
        handleTransition(c, t, d)
  \/ pollTick
  \/ resyncFire(FALSE)
  \/ destroy

SpecStop == Init /\ [][StopNext]_vars

----------------------------------------------------------------------------
(* The panel's preview animation *)

PreviewNext ==
  \/ \E c \in {"A", NoClip} : setSelectedClip(c)
  \/ \E t \in AllPanelTypes : selectTransition(t)
  \/ playButton
  \/ animationFrame
  \/ showUI
  \/ hideUI
  \/ destroyUI

SpecPreview == Init /\ [][PreviewNext]_vars

\* C20: hide() and destroy() leave no frame of the playback scheduled, whether none,
\* some or all of its frames were rendered; no frame is rendered for a playback after
\* it was cancelled; a second hide() or destroy() changes nothing
C20_CancelStopsFrames ==
  [][ /\ (hideUI \/ destroyUI) => preview'.scheduled = {}
      /\ animationFrame => ~preview.cancelled
      /\ (hideUI /\ last.op = "hide") => preview' = preview
      /\ (destroyUI /\ last.op = "destroyUI") => preview' = preview ]_vars

C20_CancelledBetweenFrames ==
  /\ last.op = "hide"
  /\ last.started /\ last.wasScheduled
  /\ preview.cancelled
  /\ preview.scheduled = {}
  /\ preview.previewAnimation # 0

----------------------------------------------------------------------------
(* Preview renderer.  Lengths are in tenths of a pixel, progress and alpha  *)
(* in tenths, scale factors in hundredths, so that every value the code    *)
(* computes at a progress of k/10 is an integer.                           *)

\* <canvas id="transitionPreview" width="240" height="135">
CanvasWidth == 240
CanvasHeight == 135

width == 10 * CanvasWidth
height == 10 * CanvasHeight

Max(a, b) == IF a >= b THEN a ELSE b

\* Math.max(0, Math.min(1, progress))
clampProgress(progress) == Max(0, Min(10, progress))

\* the crossfade rule: the 'from' clip, then the 'to' clip at opacity p
crossfadeCommands(p) ==
  << <<"fillStyle", "from", 10>>, <<"fillRect", 0, 0, width, height>>,
     <<"globalAlpha", p>>,
     <<"fillStyle", "to", 10>>, <<"fillRect", 0, 0, width, height>>,
     <<"globalAlpha", 10>> >>

\* fadeToBlack / fadeToWhite with the given ink
fadeThroughCommands(p, ink) ==
  IF p < 5
  THEN << <<"fillStyle", "from", 10>>, <<"fillRect", 0, 0, width, height>>,
          <<"fillStyle", ink, p * 2>>, <<"fillRect", 0, 0, width, height>> >>
  ELSE << <<"fillStyle", "to", 10>>, <<"fillRect", 0, 0, width, height>>,
          <<"fillStyle", ink, (10 - p) * 2>>, <<"fillRect", 0, 0, width, height>> >>

\* the wipes: the 'from' clip, then the 'to' clip on the given rectangle
wipeCommands(x, y, w, h) ==
  << <<"fillStyle", "from", 10>>, <<"fillRect", 0, 0, width, height>>,
     <<"fillStyle", "to", 10>>, <<"fillRect", x, y, w, h>> >>

\* the slides: both clips translated horizontally
slideCommands(fromShift, toShift) ==
  << <<"save">>, <<"translate", fromShift, 0>>,
     <<"fillStyle", "from", 10>>, <<"fillRect", 0, 0, width, height>>, <<"restore">>,
     <<"save">>, <<"translate", toShift, 0>>,
     <<"fillStyle", "to", 10>>, <<"fillRect", 0, 0, width, height>>, <<"restore">> >>

defaultDrawsFromOnly(p) ==
  << <<"fillStyle", "from", 10>>, <<"fillRect", 0, 0, width, height>> >>

\* the default rule of the switch
defaultCommands(p) ==
  << <<"fillStyle", "from", 10>>, <<"fillRect", 0, 0, width, height>>,
     <<"globalAlpha", p>>,
     <<"fillStyle", "to", 10>>, <<"fillRect", 0, 0, width, height>>,
     <<"globalAlpha", 10>> >>

\* the type ids the switch has a case for
RuleIds ==
  {"crossfade", "fadeToBlack", "fadeToWhite", "wipeLeft", "wipeRight", "wipeUp", "wipeDown",
   "slideLeft", "slideRight", "zoomIn", "zoomOut", "circleOpen", "circleClose"}

\* the drawing commands applyTransitionEffect issues on the context
applyTransitionEffect(type, progress) ==
  LET p == clampProgress(progress)
  IN CASE type = "crossfade" -> crossfadeCommands(p)
       [] type = "fadeToBlack" -> fadeThroughCommands(p, "black")
       [] type = "fadeToWhite" -> fadeThroughCommands(p, "white")
       [] type = "wipeLeft" ->
            wipeCommands((width * (10 - p)) \div 10, 0, (width * p) \div 10, height)
       [] type = "wipeRight" -> wipeCommands(0, 0, (width * p) \div 10, height)
       [] type = "wipeUp" ->
            wipeCommands(0, (height * (10 - p)) \div 10, width, (height * p) \div 10)
       [] type = "wipeDown" -> wipeCommands(0, 0, width, (height * p) \div 10)
       [] type = "slideLeft" ->
            slideCommands(0 - (width * p) \div 10, (width * (10 - p)) \div 10)
       [] type = "slideRight" ->
            slideCommands((width * p) \div 10, 0 - (width * (10 - p)) \div 10)
       [] type = "zoomIn" ->
            << <<"fillStyle", "from", 10>>, <<"fillRect", 0, 0, width, height>>,
               <<"save">>, <<"translate", width \div 2, height \div 2>>,
               <<"scale", 10 + 9 * p>>,
               <<"translate", 0 - width \div 2, 0 - height \div 2>>,
               <<"globalAlpha", p>>,
               <<"fillStyle", "to", 10>>, <<"fillRect", 0, 0, width, height>>,
               <<"restore">>, <<"globalAlpha", 10>> >>
       [] type = "zoomOut" ->
            << <<"fillStyle", "to", 10>>, <<"fillRect", 0, 0, width, height>>,
               <<"save">>, <<"translate", width \div 2, height \div 2>>,
               <<"scale", 100 - 9 * p>>,
               <<"translate", 0 - width \div 2, 0 - height \div 2>>,
               <<"fillStyle", "from", 10>>, <<"fillRect", 0, 0, width, height>>,
               <<"restore">> >>
       [] type = "circleOpen" ->
            << <<"fillStyle", "from", 10>>, <<"fillRect", 0, 0, width, height>>,
               <<"globalCompositeOperation", "destination-in">>,
               <<"beginPath">>,
               <<"arc", width \div 2, height \div 2, (Max(width, height) * p) \div 10>>,
               <<"fill">>,
               <<"globalCompositeOperation", "source-over">>,
               <<"fillStyle", "to", 10>>, <<"fillRect", 0, 0, width, height>> >>
       [] type = "circleClose" ->
            << <<"fillStyle", "to", 10>>, <<"fillRect", 0, 0, width, height>>,
               <<"globalCompositeOperation", "destination-in">>,
               <<"beginPath">>,
               <<"arc", width \div 2, height \div 2,
                 (Max(width, height) * (10 - p)) \div 10>>,
               <<"fill">>,
               <<"globalCompositeOperation", "source-over">> >>
       [] OTHER -> defaultCommands(p)

----------------------------------------------------------------------------
(* The 2D canvas the commands are issued on, observed at sample points     *)
(* (coordinates in half pixels: the corners, the edge midpoints, the       *)
(* centre and points between).  A sample holds the share of each paint in  *)
(* hundredths; all shares zero is the cleared, transparent surface.        *)

SampleXs == {1, 120, 240, 360, 479}
SampleYs == {1, 68, 135, 202, 269}
Samples == SampleXs \X SampleYs

Paints == {"from", "to", "black", "white"}

Cleared == [k \in Paints |-> 0]

\* ctx.clearRect(0, 0, width, height) on a context in its default state
FreshContext ==
  [fillStyle |-> <<"black", 10>>, globalAlpha |-> 10, gco |-> "source-over",
   scale |-> 100, tx |-> 0, ty |-> 0, path |-> <<>>, stack |-> <<>>,
   image |-> [pt \in Samples |-> Cleared]]

\* the sample lies in the rectangle (x, y, w, h) under the current transform
inRect(c, pt, x, y, w, h) ==
  /\ c.tx + c.scale * x <= 500 * pt[1] /\ 500 * pt[1] < c.tx + c.scale * (x + w)
  /\ c.ty + c.scale * y <= 500 * pt[2] /\ 500 * pt[2] < c.ty + c.scale * (y + h)

\* the sample lies in the circle of the current path (centre and radius as transformed
\* when arc() was called, in half pixels)
inPath(c, pt) ==
  /\ c.path # <<>>
  /\ (pt[1] - c.path[1]) * (pt[1] - c.path[1]) + (pt[2] - c.path[2]) * (pt[2] - c.path[2])
       < c.path[3] * c.path[3]

\* one sample after drawing paint at opacity a (tenths) where covered
composite(c, px, covered, paint, a) ==
  IF c.gco = "destination-in"
  THEN [k \in Paints |-> IF covered THEN (px[k] * a) \div 10 ELSE 0]
  ELSE IF covered
       THEN [k \in Paints |-> (px[k] * (10 - a)) \div 10 + (IF k = paint THEN 10 * a ELSE 0)]
       ELSE px

\* the opacity a fill has: the fill style's alpha times globalAlpha
fillAlpha(c) == (c.fillStyle[2] * c.globalAlpha) \div 10

\* the context after one command
draw(c, cmd) ==
  CASE cmd[1] = "fillStyle" -> [c EXCEPT !.fillStyle = <<cmd[2], cmd[3]>>]
    [] cmd[1] = "globalAlpha" -> [c EXCEPT !.globalAlpha = cmd[2]]
    [] cmd[1] = "globalCompositeOperation" -> [c EXCEPT !.gco = cmd[2]]
    [] cmd[1] = "save" ->
         [c EXCEPT !.stack = <<[fillStyle |-> c.fillStyle, globalAlpha |-> c.globalAlpha,
                                gco |-> c.gco, scale |-> c.scale, tx |-> c.tx,
                                ty |-> c.ty]>> \o @]
    [] cmd[1] = "restore" ->
         IF c.stack = <<>> THEN c
         ELSE [c EXCEPT !.fillStyle = c.stack[1].fillStyle,
                        !.globalAlpha = c.stack[1].globalAlpha,
                        !.gco = c.stack[1].gco, !.scale = c.stack[1].scale,
                        !.tx = c.stack[1].tx, !.ty = c.stack[1].ty,
                        !.stack = Tail(c.stack)]
    [] cmd[1] = "translate" ->
         [c EXCEPT !.tx = @ + c.scale * cmd[2], !.ty = @ + c.scale * cmd[3]]
    [] cmd[1] = "scale" -> [c EXCEPT !.scale = (@ * cmd[2]) \div 100]
    [] cmd[1] = "beginPath" -> [c EXCEPT !.path = <<>>]
    [] cmd[1] = "arc" ->
         [c EXCEPT !.path = <<(c.tx + c.scale * cmd[2]) \div 500,
                              (c.ty + c.scale * cmd[3]) \div 500,
                              (c.scale * cmd[4]) \div 500>>]
    [] cmd[1] = "fill" ->
         [c EXCEPT !.image = [pt \in Samples |->
             composite(c, c.image[pt], inPath(c, pt), c.fillStyle[1], fillAlpha(c))]]
    [] cmd[1] = "fillRect" ->
         [c EXCEPT !.image = [pt \in Samples |->
             composite(c, c.image[pt], inRect(c, pt, cmd[2], cmd[3], cmd[4], cmd[5]),
                       c.fillStyle[1], fillAlpha(c))]]
    [] OTHER -> c

RECURSIVE drawAll(_, _)
drawAll(c, cmds) == IF cmds = <<>> THEN c ELSE drawAll(draw(c, Head(cmds)), Tail(cmds))

\* renderTransitionPreview(transitionType, progress, canvas): the canvas afterwards
renderTransitionPreview(transitionType, progress) ==
  drawAll(FreshContext, applyTransitionEffect(transitionType, progress)).image

----------------------------------------------------------------------------
(* The renderer on its own: any type id at any progress, one rendering    *)
(* per behaviour                                                           *)

RenderTypes == CatalogIds \cup {"fade", "bogus"}

\* progress in tenths, with one value below 0 and one above 1
Progresses == {-5} \cup (0..10) \cup {15}

render(type, progress) ==
  /\ last.op # "render"
  /\ last' = [op |-> "render", type |-> type, progress |-> progress,
              commands |-> applyTransitionEffect(type, progress),
              image |-> renderTransitionPreview(type, progress)]
  /\ UNCHANGED <<win, tracks, heap, hasTransitions, transitions, mgrPanel, mgrInline,
                 currentClipId, pendingTransitions, lastTrackSnapshot, resyncScheduled,
                 retryTimers, tracksDirty, voice, dom, intervalArmed, preview, keyOrder>>

RenderNext == \E type \in RenderTypes, progress \in Progresses : render(type, progress)

SpecRender == Init /\ [][RenderNext]_vars

\* what an image shows
ShowsOnly(image, paint) == \A pt \in Samples : image[pt][paint] = 100
Shows(image, paint) == \E pt \in Samples : image[pt][paint] > 0

\* C21: for every catalog type the preview at progress 0 shows only the 'from' clip,
\* at progress 1 only the 'to' clip, and strictly between the two it shows both
C21_EndpointsPureMiddleBlended ==
  (last.op = "render" /\ last.type \in CatalogIds) =>
     /\ clampProgress(last.progress) = 0 => ShowsOnly(last.image, "from")
     /\ clampProgress(last.progress) = 10 => ShowsOnly(last.image, "to")
     /\ clampProgress(last.progress) \in 1..9 =>
           Shows(last.image, "from") /\ Shows(last.image, "to")

C21_ZoomOutLeavesFromAtEnd ==
  /\ last.op = "render"
  /\ last.type = "zoomOut"
  /\ last.progress = 10
  /\ last.image[<<240, 135>>]["from"] = 100
  /\ last.image[<<1, 1>>]["to"] = 100

\* C22: a type id outside the catalog, and a catalog id the switch has no case for,
\* is drawn with exactly the commands of 'crossfade' at the same progress (and so
\* gives the same image)
C22_UnresolvedDrawnAsCrossfade ==
  (last.op = "render" /\ last.type \notin RuleIds) =>
     /\ last.commands = applyTransitionEffect("crossfade", last.progress)
     /\ last.image = renderTransitionPreview("crossfade", last.progress)

C22_UnknownTypeHalfway ==
  /\ last.op = "render"
  /\ last.type = "bogus"
  /\ last.progress = 5
  /\ \A pt \in Samples : last.image[pt]["from"] = 50 /\ last.image[pt]["to"] = 50

----------------------------------------------------------------------------
(* The two graphs under add, remove, store write/remove and re-import *)

GraphNext ==
  \/ \E c \in Clips \cup {NoClip} : setSelectedClip(c)
  \/ \E t \in AllPanelTypes : selectTransition(t)
  \/ removeButton
  \/ \E a, b \in Clips, t \in AllInlineTypes : cardClick(a, b, t)
  \/ \E a, b \in Clips : inlineRemove(a, b)
  \/ \E which \in {"panel", "inline"} : reimport(which)

SpecGraph == InitLocated /\ [][GraphNext]_vars

\* C23: importing what was just exported leaves get(clipId) as it was for every clip
C23_ReimportIsIdentity == last.op = "reimport" => last.changed = {}

C23_ReimportRegistersOtherEndpoint ==
  /\ last.op = "reimport"
  /\ last.which = "panel"
  /\ last.held = {"A"}
  /\ last.changed = {"B"}
  /\ getTransition(mgrPanel, "B") = getTransition(mgrPanel, "A")

----------------------------------------------------------------------------
(* Listing the catalog by category, and the encoder filter of a type      *)

\* Object.values(TRANSITION_TYPES): the types in the order the object literal
\* declares them
ObjectValues ==
  << TRANSITION_TYPES.CROSSFADE, TRANSITION_TYPES.FADE_TO_BLACK,
     TRANSITION_TYPES.FADE_TO_WHITE, TRANSITION_TYPES.WIPE_LEFT,
     TRANSITION_TYPES.WIPE_RIGHT, TRANSITION_TYPES.WIPE_UP,
     TRANSITION_TYPES.WIPE_DOWN, TRANSITION_TYPES.SLIDE_LEFT,
     TRANSITION_TYPES.SLIDE_RIGHT, TRANSITION_TYPES.SLIDE_UP,
     TRANSITION_TYPES.SLIDE_DOWN, TRANSITION_TYPES.ZOOM_IN,
     TRANSITION_TYPES.ZOOM_OUT, TRANSITION_TYPES.PIXELATE,
     TRANSITION_TYPES.BLUR, TRANSITION_TYPES.MIRROR,
     TRANSITION_TYPES.CIRCLE_OPEN, TRANSITION_TYPES.CIRCLE_CLOSE,
     TRANSITION_TYPES.DIAMOND >>

getAllTransitions == ObjectValues

\* .filter(t => t.category === category)
getTransitionsByCategory(category) ==
  LET keep(t) == t.category = category
  IN  SelectSeq(ObjectValues, keep)

\* the types the panel's grid is filled with
populateTransitions(category) ==
  IF category = "all" THEN getAllTransitions ELSE getTransitionsByCategory(category)

\* the types the inline popup builds cards for
buildCards(cat) ==
  IF cat = "all" THEN ObjectValues
  ELSE LET keep(t) == t.category = cat IN SelectSeq(ObjectValues, keep)

\* the tabs of both pickers, a category no type has, and no argument
ListCategories ==
  {"all", "fade", "wipe", "slide", "zoom", "effect", "shape", "bogus", Omitted}

\* one listing per behaviour: through the manager (getAllTransitions() when no
\* category is given, getTransitionsByCategory(category) otherwise), through the
\* panel, or through the inline popup
list(via, category) ==
  /\ last.op # "list"
  /\ last' = [op |-> "list", via |-> via, category |-> category,
              result |-> CASE via = "manager" ->
                                IF category = Omitted THEN getAllTransitions
                                ELSE getTransitionsByCategory(category)
                           [] via = "panel" -> populateTransitions(category)
                           [] via = "inline" -> buildCards(category)]
  /\ UNCHANGED <<win, tracks, heap, hasTransitions, transitions, mgrPanel, mgrInline,
                 currentClipId, pendingTransitions, lastTrackSnapshot, resyncScheduled,
                 retryTimers, tracksDirty, voice, dom, intervalArmed, preview, keyOrder>>

\* a switch whose default case returns nothing
noFilter(duration, duration1) == <<>>

\* the fade filter every unmapped type falls back to
defaultFilter(duration, duration1) ==
  <<"xfade=transition=", "fade", ":duration=", duration, ":offset=", duration1 - duration>>

\* the switch of getFFmpegFilter: the template string as the sequence of its parts
getFFmpegFilter(transition, duration1, duration2) ==
  LET type == transition.type
      duration == transition.duration
      xfade(name) == <<"xfade=transition=", name, ":duration=", duration,
                       ":offset=", duration1 - duration>>
  IN  CASE type = "crossfade" -> xfade("fade")
        [] type = "fadeToBlack" -> xfade("fadeblack")
        [] type = "fadeToWhite" -> xfade("fadewhite")
        [] type = "wipeLeft" -> xfade("wipeleft")
        [] type = "wipeRight" -> xfade("wiperight")
        [] type = "wipeUp" -> xfade("wipeup")
        [] type = "wipeDown" -> xfade("wipedown")
        [] type = "slideLeft" -> xfade("slideleft")
        [] type = "slideRight" -> xfade("slideright")
        [] type = "slideUp" -> xfade("slideup")
        [] type = "slideDown" -> xfade("slidedown")
        [] type = "circleOpen" -> xfade("circleopen")
        [] type = "circleClose" -> xfade("circleclose")
        [] type \in {"zoomIn", "zoomOut"} -> xfade("fade")
        [] OTHER -> defaultFilter(duration, duration1)

\* the ids getFFmpegFilter names an encoder transition of their own for
MappedIds ==
  {"crossfade", "fadeToBlack", "fadeToWhite", "wipeLeft", "wipeRight", "wipeUp",
   "wipeDown", "slideLeft", "slideRight", "slideUp", "slideDown", "circleOpen",
   "circleClose"}

FilterDurations == {500, 1000}
FirstClipDurations == {2000, 4000}

\* one filter request per behaviour
exportFilter(type, duration, duration1, duration2) ==
  /\ last.op # "filter"
  /\ last' = [op |-> "filter", type |-> type, duration |-> duration,
              duration1 |-> duration1,
              filter |-> getFFmpegFilter([type |-> type, duration |-> duration],
                                         duration1, duration2)]
  /\ UNCHANGED <<win, tracks, heap, hasTransitions, transitions, mgrPanel, mgrInline,
                 currentClipId, pendingTransitions, lastTrackSnapshot, resyncScheduled,
                 retryTimers, tracksDirty, voice, dom, intervalArmed, preview, keyOrder>>

CatalogNext ==
  \/ \E type \in RenderTypes, progress \in Progresses : render(type, progress)
  \/ \E via \in {"manager", "panel", "inline"}, category \in ListCategories :
        list(via, category)
  \/ \E type \in RenderTypes, duration \in FilterDurations,
        duration1, duration2 \in FirstClipDurations :
        exportFilter(type, duration, duration1, duration2)

SpecCatalog == Init /\ [][CatalogNext]_vars

\* C24: a listing with the category left out or 'all' returns every catalog type, in
\* catalog order; with a category of the catalog exactly the types of that category;
\* with any other category the empty sequence
C24_ListByCategory ==
  last.op = "list" =>
     last.result =
        IF last.category \in {Omitted, "all"} THEN ObjectValues
        ELSE LET inCategory(t) == t.category = last.category
             IN  SelectSeq(ObjectValues, inCategory)

C24_PanelListsNothingWithoutCategory ==
  /\ last.op = "list"
  /\ last.via = "panel"
  /\ last.category = Omitted
  /\ last.result = <<>>

----------------------------------------------------------------------------
(* Draining the pending queue *)

\* C26: a poll tick that finds the store attempts every queued operation once and
\* leaves the queue empty; a tick that finds the store with nothing queued writes
\* nothing to project.transitions and calls no persistence or refresh hook
C26_QueuedAppliedOnce ==
  (last.op = "pollTick" /\ Located(getEditorStore(win))) =>
     /\ pendingTransitions = <<>>
     /\ Len(last.outcomes) = Len(last.queue)
     /\ last.queue = <<>> =>
           /\ storedRecords(transitions, heap) = last.before
           /\ last.hooks = <<>>

C26_LaterTickQuiet ==
  /\ last.op = "pollTick"
  /\ last.located
  /\ last.queue = <<>>
  /\ pendingTransitions = <<>>
  /\ \E n \in Stored : IsInst(n, "A", "B", "wipeLeft")
  /\ storedRecords(transitions, heap) = last.before

\* 'transitions:add' events whose type is a catalog id, an id outside the catalog,
\* or left out
DrainTypes == {"wipeLeft", "fade", Omitted}

DrainNext ==
  \/ \E w \in WinConfigs : HostSetStore(w)
  \/ \E layout \in TrackLayouts : HostEditTracks(layout)
  \/ \E c \in MonitorClips, t \in DrainTypes, d \in MonitorDurations :
        handleTransition(c, t, d)
  \/ pollTick
  \/ resyncFire(FALSE)

SpecDrain == Init /\ [][DrainNext]_vars

\* C27: in a drain every queued operation is attempted, in queue order; one that
\* cannot succeed (a type outside the catalog, a clip in no track or with no
\* successor) writes nothing and calls no hook, every other one is added, and the
\* last operation of the queue, when it can succeed, is in project.transitions after
\* the tick whatever happened to the operations before it
C27_FailedDroppedDrainContinues ==
  (last.op = "pollTick" /\ last.located) =>
     /\ Len(last.outcomes) = Len(last.queue)
     /\ \A i \in DOMAIN last.queue :
           IF \/ last.queue[i].transitionType \notin CatalogIds
              \/ NoSuccessorIn(projectTracks(win, tracks), last.queue[i].clipId)
           THEN /\ last.outcomes[i] \in {"clipNotFound", "noNextClip"}
                /\ last.hooks[i] = {}
           ELSE last.outcomes[i] = "added"
     /\ (last.queue # <<>> /\ last.outcomes[Len(last.queue)] = "added") =>
           \E n \in Stored :
              /\ heap[n].fromClipId = last.queue[Len(last.queue)].clipId
              /\ heap[n].type = last.queue[Len(last.queue)].transitionType

C27_AddedAfterRefusedOperation ==
  /\ last.op = "pollTick"
  /\ last.located
  /\ tracks = << <<"A", "C">>, <<"B">> >>
  /\ Len(last.queue) = 2
  /\ last.queue[1].clipId = "B"
  /\ last.queue[2].clipId = "A"
  /\ last.outcomes = <<"noNextClip", "added">>
  /\ \E n \in Stored : IsInst(n, "A", "C", "wipeLeft")

\* C28: a poll tick that finds no store leaves the queue, project.transitions and the
\* stored snapshot as they were and schedules no re-injection
C28_UnlocatedTickChangesNothing ==
  (last.op = "pollTick" /\ getEditorStore(win) \in {Null, Undefined}) =>
     /\ pendingTransitions = last.queue
     /\ last.outcomes = <<>>
     /\ storedRecords(transitions, heap) = last.before
     /\ lastTrackSnapshot = last.snapshotBefore
     /\ ~last.signalled
     /\ ~resyncScheduled

C28_TickWithoutStoreKeepsQueue ==
  /\ last.op = "pollTick"
  /\ ~last.located
  /\ Len(last.queue) = 2
  /\ last.queue[1].clipId = "A"
  /\ last.queue[2].clipId = "B"
  /\ pendingTransitions = last.queue
  /\ lastTrackSnapshot = NullSnapshot

----------------------------------------------------------------------------
(* Topology change detection *)

\* track compositions that differ in the ids of a track, in their order, or only in
\* how the same ids are split over tracks
TopologyLayouts ==
  { << <<"A", "B", "C">> >>,
    << <<"B", "A", "C">> >>,
    << <<"A", "B">>, <<"C">> >>,
    << <<"A", "C">>, <<"B">> >>,
    << <<"B">>, <<"A", "C">> >> }

\* what store.project?.tracks || [] can be
TopologyStates == TopologyLayouts \cup {<<>>}

TopologyNext ==
  \/ \E w \in WinConfigs : HostSetStore(w)
  \/ \E layout \in TopologyLayouts : HostEditTracks(layout)
  \/ handleTransition("A", "wipeLeft", 3000)
  \/ pollTick
  \/ resyncFire(FALSE)

SpecTopology == Init /\ [][TopologyNext]_vars

----------------------------------------------------------------------------
(* The inline picker's graph after a sync from the store *)

\* the inline picker and the store monitor on a located store; every re-injection the
\* monitor schedules runs syncFromStore
SyncNext ==
  \/ \E layout \in AllLayouts : HostEditTracks(layout)
  \/ \E a, b \in Clips, t \in AllInlineTypes : cardClick(a, b, t)
  \/ \E a, b \in Clips : inlineRemove(a, b)
  \/ \E c \in MonitorClips, t \in AllMonitorTypes, d \in MonitorDurations :
        handleTransition(c, t, d)
  \/ pollTick
  \/ resyncFire(TRUE)

SpecSync == InitLocated /\ [][SyncNext]_vars

\* C30: right after syncFromStore has run on a located store, get(clipId) returns an
\* instance exactly for the clips an instance of project.transitions touches, and the
\* instance returned is one of project.transitions
C30_MirrorMatchesStoreAfterSync ==
  (last.op = "resyncFire" /\ Located(getStore(win)) /\ win.project) =>
     \A c \in Clips :
        /\ getTransition(mgrInline, c) # 0 <=> \E n \in Stored : Touches(heap, n, c)
        /\ getTransition(mgrInline, c) # 0 => getTransition(mgrInline, c) \in Stored

C30_RemovedInstanceStillReturned ==
  /\ last.op = "resyncFire"
  /\ Located(getStore(win))
  /\ hasTransitions
  /\ getTransition(mgrInline, "A") # 0
  /\ getTransition(mgrInline, "A") \notin Stored
  /\ IsInst(getTransition(mgrInline, "A"), "A", "B", "wipeLeft")
  /\ \E n \in Stored : IsInst(n, "B", "C", "fade")

----------------------------------------------------------------------------
(* Endpoints of the stored instances *)

\* C31: in project.transitions every clip id is the fromClipId of at most one
\* instance and the toClipId of at most one instance
C31_OneInstanceEachWay ==
  \A c \in Clips :
     /\ Cardinality({n \in Stored : heap[n].fromClipId = c}) <= 1
     /\ Cardinality({n \in Stored : heap[n].toClipId = c}) <= 1

C31_TwoInstancesLeaveOneClip ==
  \E c \in Clips : \E n, m \in Stored :
     /\ n # m
     /\ heap[n].fromClipId = c
     /\ heap[m].fromClipId = c
     /\ heap[n].toClipId # heap[m].toClipId

----------------------------------------------------------------------------
(* Host hooks after a write or a removal *)

\* C32: every write that succeeds and every removal that takes an instance out of
\* project.transitions, in the panel, the inline picker and the store monitor, calls
\* both saveNow and pushSnapshot (each when the store has it)
C32_WriteAndRemoveCallBothHooks ==
  LET both == {"saveNow", "pushSnapshot"}
  IN  /\ (last.op \in {"selectTransition", "handleTransition"} /\ last.outcome = "added")
            => both \subseteq last.hooks
      /\ (last.op \in {"cardClick", "retryFire"} /\ last.outcome = "saved")
            => both \subseteq last.hooks
      /\ last.op = "pollTick" =>
            \A i \in DOMAIN last.outcomes :
               last.outcomes[i] = "added" => both \subseteq last.hooks[i]
      /\ last.op = "inlineRemove" => both \subseteq last.hooks
      /\ (last.op = "removeButton" /\ last.removed > 0) => both \subseteq last.hooks

C32_PanelWriteSkipsPushSnapshot ==
  /\ last.op = "selectTransition"
  /\ last.outcome = "added"
  /\ "saveNow" \in last.hooks
  /\ "pushSnapshot" \notin last.hooks
  /\ \E n \in Stored : IsInst(n, "A", "B", "crossfade")

----------------------------------------------------------------------------
(* A preview playback runs to its end *)

\* the browser keeps delivering the animation frames that are requested
SpecPreviewLive == Init /\ [][PreviewNext]_vars /\ WF_vars(animationFrame)

\* C33: at most one animate callback is scheduled at any time; every frame is
\* rendered at a progress not below that of the frame before it, and requests a next
\* frame exactly when its progress is below 1; a playback that has rendered a frame
\* and is neither replayed nor cancelled renders a frame at progress 1 and leaves
\* nothing scheduled
C33_PreviewRunsToItsEnd ==
  /\ [](Cardinality(preview.scheduled) <= 1)
  /\ [][animationFrame =>
          /\ preview'.progress >= preview.progress
          /\ preview'.progress = 10 <=> preview'.scheduled = {}]_vars
  /\ (preview.scheduled # {} /\ last.op = "animate")
        ~> \/ preview.scheduled = {} /\ preview.progress = 10
           \/ last.op \in {"playPreview", "selectTransition", "hide", "destroyUI"}

C33_PlaybackFinished ==
  /\ last.op = "animate"
  /\ last.finished
  /\ preview.started
  /\ ~preview.cancelled
  /\ preview.elapsed = 11
  /\ preview.progress = 10
  /\ preview.scheduled = {}

----------------------------------------------------------------------------
(* Requests made around the moment the store appears *)

\* C34: a 'transitions:add' request is not written to project.transitions while
\* an earlier request is still waiting in the queue
C34_NoWriteAheadOfQueue ==
  (last.op = "handleTransition" /\ last.outcome = "added") => pendingTransitions = <<>>

C34_QueuedRequestOverwritesLaterOne ==
  /\ last.op = "pollTick"
  /\ last.located
  /\ Len(last.queue) = 1
  /\ last.queue[1].clipId = "A"
  /\ last.queue[1].transitionType = "fade"
  /\ Len(last.before) = 1
  /\ last.before[1].fromClipId = "A"
  /\ last.before[1].type = "wipeLeft"
  /\ Len(transitions) = 1
  /\ IsInst(transitions[1], "A", "B", "fade")

----------------------------------------------------------------------------
(* Picks in the inline picker while the store is away *)

\* retries followed at a time when the picks are all on one clip pair
MaxPairRetry == 2

RetryNext ==
  \/ \E w \in WinConfigs : HostSetStore(w)
  \/ \E t \in InlineTypes : cardClickWithin(MaxPairRetry, "A", "B", t)
  \/ retryFireWithin(MaxPairRetry)
  \/ inlineRemove("A", "B")

SpecRetry == Init /\ [][RetryNext]_vars

\* C35: when the last armed retry has written, project.transitions holds exactly one
\* instance on the clip pair and it has the type of the pick made last
C35_LastPickWins ==
  (last.op = "retryFire" /\ last.outcome = "saved" /\ retryTimers = <<>>) =>
     /\ Cardinality({i \in DOMAIN transitions :
                       Endpoints(transitions[i]) = {"A", "B"}}) = 1
     /\ \A i \in DOMAIN transitions : heap[transitions[i]].type = last.latest

C35_EarlierPickWroteLast ==
  /\ last.op = "retryFire"
  /\ last.outcome = "saved"
  /\ last.latest = "wipeLeft"
  /\ retryTimers = <<>>
  /\ Len(transitions) = 1
  /\ IsInst(transitions[1], "A", "B", "crossfade")

----------------------------------------------------------------------------
(* Adding a recorded voice-over to the timeline                            *)

\* nested calls of addToTimeline the call stack has room for (thousands in a browser)
MaxStack == 3
StackRooms == 2..MaxStack

\* clips and queued recordings the model follows
MaxVoice == 6

\* the user confirms 'Add this voice over to the timeline?', or a script calls
\* VoiceOverIntegration.addToTimeline(mediaItem)
addToTimelineCall(mediaItem, room) ==
  /\ voice.clips["m1"] + voice.clips["m2"] + Len(voice.pendingVoiceOvers) + room <= MaxVoice
  /\ \E v \in {addToTimeline([voice EXCEPT !.dispatched = 0], win, mediaItem, room)} :
        voice' = [v EXCEPT !.calls[mediaItem] = @ + 1]
  /\ last' = [op |-> "addToTimeline", mediaItem |-> mediaItem, room |-> room,
              located |-> Located(voiceGetEditorStore(win))]
  /\ UNCHANGED <<win, tracks, heap, hasTransitions, transitions, mgrPanel, mgrInline,
                 currentClipId, pendingTransitions, lastTrackSnapshot, resyncScheduled,
                 retryTimers, tracksDirty, dom, intervalArmed, preview, keyOrder>>

\* the 500 ms interval of VoiceOverStoreMonitor.startMonitoring() fires
voicePollTick ==
  /\ voice' = IF Located(voiceGetEditorStore(win))
              THEN [voice EXCEPT !.clips = drainVoiceOvers(voice.pendingVoiceOvers, @, win),
                                 !.pendingVoiceOvers = <<>>]
              ELSE voice
  /\ last' = [op |-> "voicePollTick", located |-> Located(voiceGetEditorStore(win)),
              drained |-> IF Located(voiceGetEditorStore(win))
                          THEN Len(voice.pendingVoiceOvers) ELSE 0]
  /\ UNCHANGED <<win, tracks, heap, hasTransitions, transitions, mgrPanel, mgrInline,
                 currentClipId, pendingTransitions, lastTrackSnapshot, resyncScheduled,
                 retryTimers, tracksDirty, dom, intervalArmed, preview, keyOrder>>

VoiceNext ==
  \/ \E w \in WinConfigs : HostSetStore(w)
  \/ \E mediaItem \in MediaItems, room \in StackRooms : addToTimelineCall(mediaItem, room)
  \/ voicePollTick

SpecVoice == Init /\ [][VoiceNext]_vars

\* C36: one call of addToTimeline(mediaItem) dispatches 'voiceover:addToTimeline'
\* without using up the call stack, and every call made so far accounts for exactly
\* one clip of its recording on the audio track or, while the store is away, for one
\* queued recording; a poll tick that locates the store leaves nothing queued
C36_VoiceOverAddedOnce ==
  /\ last.op = "addToTimeline" => voice.dispatched < last.room
  /\ \A m \in MediaItems :
        voice.clips[m] + CountIn(voice.pendingVoiceOvers, m) = voice.calls[m]
  /\ (last.op = "voicePollTick" /\ last.located) => voice.pendingVoiceOvers = <<>>

\* one call with the store available has put two clips of the recording on the track
C36_OneCallTwoClips ==
  /\ last.op = "addToTimeline" /\ last.located /\ last.mediaItem = "m1"
  /\ voice.calls["m1"] = 1
  /\ voice.clips["m1"] = 2
  /\ voice.dispatched = 2

----------------------------------------------------------------------------
(* The '+' buttons on the timeline: the host renders the clip elements,    *)
(* the MutationObserver of watchTimeline() schedules inject() and          *)
(* refreshAllBtns() 150 ms after every change of the element tree.  The    *)
(* observed element is taken to contain the track rows                     *)

\* times the host re-renders the timeline; the inject cycles after a render are
\* counted 1, 2, .. MaxCycles, 1, 2, ..
MaxRenders == 3
MaxCycles == 3

\* the orderings of the clips of a set
Arrangements(S) ==
  {s \in [1..Cardinality(S) -> S] : \A i, j \in 1..Cardinality(S) : i # j => s[i] # s[j]}

\* what the host can render: every clip in at most one row, in any order
TimelineLayouts ==
  UNION {UNION {{<<first, second>> : first \in Arrangements(S), second \in Arrangements(T)} :
                  T \in SUBSET (Clips \ S)} : S \in SUBSET Clips}

\* the host adds, removes or reorders clip elements; the MutationObserver calls
\* scheduleInject, which sets the 150 ms timeout anew
HostRender(rows) ==
  /\ rows # dom.rows
  /\ dom.renders < MaxRenders
  /\ dom' = [dom EXCEPT !.rows = rows, !.debounce = TRUE, !.cycles = 0,
                        !.renders = @ + 1]
  /\ last' = [op |-> "hostRender"]
  /\ UNCHANGED <<win, tracks, heap, hasTransitions, transitions, mgrPanel, mgrInline,
                 currentClipId, pendingTransitions, lastTrackSnapshot, resyncScheduled,
                 retryTimers, tracksDirty, voice, intervalArmed, preview, keyOrder>>

\* the timeout of scheduleInject fires: inject(); refreshAllBtns();
\* appending a button, removing one, and setting the innerHTML of one in refreshBtn
\* are child-list changes below the observed element: each calls scheduleInject
injectFire ==
  /\ dom.debounce
  /\ \E injected \in {inject(dom.buttons, dom.rows, win, hasTransitions, transitions, heap)} :
        /\ dom' = [dom EXCEPT
                     !.buttons = refreshAllBtns(injected, dom.rows, win, hasTransitions,
                                                transitions, heap),
                     !.debounce = \/ injected # dom.buttons
                                  \/ keptBtns(injected, dom.rows) # injected
                                  \/ keptBtns(injected, dom.rows) # {},
                     !.cycles = (@ % MaxCycles) + 1]
        /\ last' = [op |-> "injectFire",
                    added |-> Cardinality(injected \ dom.buttons),
                    removed |-> Cardinality(injected \ keptBtns(injected, dom.rows)),
                    refreshed |-> Cardinality(keptBtns(injected, dom.rows))]
  /\ UNCHANGED <<win, tracks, heap, hasTransitions, transitions, mgrPanel, mgrInline,
                 currentClipId, pendingTransitions, lastTrackSnapshot, resyncScheduled,
                 retryTimers, tracksDirty, voice, intervalArmed, preview, keyOrder>>

TimelineNext ==
  \/ \E rows \in TimelineLayouts : HostRender(rows)
  \/ injectFire

\* a set timeout fires
SpecTimeline == Init /\ [][TimelineNext]_vars /\ WF_vars(injectFire)

\* C37: once the host has stopped re-rendering the timeline, the inject/refresh cycle
\* stops being scheduled: from some point on no timeout of scheduleInject is pending
C37_InjectionQuiesces == <>[](~dom.debounce)

\* a cycle that added and removed nothing has run after others and is scheduled again
C37_RescheduledByOwnRefresh ==
  /\ last.op = "injectFire" /\ last.added = 0 /\ last.removed = 0
  /\ dom.cycles = MaxCycles
  /\ dom.debounce

\* C38: after a completed inject() and refreshAllBtns() the '+' buttons are those of
\* the adjacent clip pairs: one button for every pair of consecutive clips of a row,
\* and none for any other pair
C38_ButtonsMatchAdjacentPairs ==
  last.op = "injectFire" =>
     /\ {<<b.from, b.to>> : b \in dom.buttons} = AdjacentPairs(dom.rows)
     /\ Cardinality(dom.buttons) = Cardinality(AdjacentPairs(dom.rows))

\* B was removed from the row A B: the button between A and B is still there
C38_ButtonOfRemovedNeighbour ==
  /\ last.op = "injectFire"
  /\ dom.rows = << <<"A">>, <<>> >>
  /\ \E b \in dom.buttons : b.from = "A" /\ b.to = "B"

----------------------------------------------------------------------------
(* The three lookups against each other *)

\* C39: for every combination of global store, plugin-store entries, accessor and
\* named globals the inline picker, the panel and the store monitor find the same
\* store, or none of them finds one
C39_LookupsAgree ==
  last.op = "locate" =>
     \/ /\ Located(last.inline)
        /\ last.inline = last.panel
        /\ last.panel = last.monitor
     \/ /\ ~Located(last.inline)
        /\ ~Located(last.panel)
        /\ ~Located(last.monitor)

\* a store registered as "Project": found by the inline picker and the monitor,
\* not by the panel
C39_CapitalisedNameMissedByPanel ==
  /\ last.op = "locate"
  /\ win = [NoWindow EXCEPT !.pinia = <<"Project">>]
  /\ last.inline = Found("pinia", 1)
  /\ last.monitor = Found("pinia", 1)
  /\ ~Located(last.panel)

====
